---- MODULE Spec2Model ----
(***************************************************************************)
(* Model of two allocation stages of sdc-designation:                      *)
(*   lib/algorithms/soft-filter-recent-servers.js  (run + post hook)       *)
(*   hard-filter-vm-count                          (run)                   *)
(* A server object is a record [uuid, vms]; a server list is a sequence.   *)
(* The allocator state object is a record whose recent_servers slot may    *)
(* still be undefined (has_recent_servers = FALSE).                        *)
(***************************************************************************)
EXTENDS Integers, Sequences, FiniteSets, TLC

VARIABLES
    now,      \* the clock, what +new Date() returns
    state,    \* the allocator's state object
    call,     \* the call made by the last step, with its arguments and result
    posted,   \* history: uuids recorded by post since the last run
    chosen,   \* history: uuids selected by the current streak of allocations
    pipe      \* the pipe being evaluated: stages left, surviving servers

vars == <<now, state, call, posted, chosen, pipe>>

(***************************************************************************)
(* Bounds of the model.                                                    *)
(***************************************************************************)
\* servers 1 .. MaxChosen are the ones allocations land on (post hook)
MaxChosen == 2
\* servers MaxChosen+1 .. MaxChosen+MaxAlternatives are never selected
MaxAlternatives == 6
\* the clock advances at most MaxTicks times, by TickMs each time: an entry
\* is 0, 5000 or 10000 ms old when a run looks at it
MaxTicks == 2
TickMs == 5000
\* +new Date() when the allocator is constructed
StartClock == 10000
\* single runs of the filter: servers 1 .. MaxRecent may have an entry in
\* recent_servers, servers MaxRecent+1 .. MaxRecent+MaxOthers have none
MaxRecent == 4
MaxOthers == 4

Pool == 1 .. MaxChosen

(***************************************************************************)
(* Program constants.                                                      *)
(***************************************************************************)
MAX_AGE == 5000
\* 0.25 as the fraction <<numerator, denominator>>
MAX_REMOVED_RATIO == <<1, 4>>

(***************************************************************************)
(* Generic helpers for JavaScript arrays and numbers.                      *)
(***************************************************************************)
\* Array.prototype.map(function (s) { return s[1]; }) on [timestamp, uuid] pairs
UuidsOf(pairs) == [i \in 1 .. Len(pairs) |-> pairs[i][2]]

\* Array.prototype.indexOf(x) === -1
NotIn(arr, x) == \A i \in 1 .. Len(arr) : arr[i] # x

\* len * ratio as an exact fraction (0.25 * n is exact in binary floating point)
Times(len, ratio) == <<len * ratio[1], ratio[2]>>

\* variant: the larger of the two
MathMin_Max(q, k) == IF q[1] >= k * q[2] THEN q ELSE <<k, 1>>

\* Math.min of a fraction and an integer, as a fraction
MathMin(q, k) == IF q[1] <= k * q[2] THEN q ELSE <<k, 1>>

\* variant: <= in place of ===
StrictEq_AtMost(q, k) == q[1] <= k * q[2]

\* fraction === integer
StrictEq(q, k) == q[1] = k * q[2]

\* variant: the end of the slice rounded up
ToInteger_RoundsUp(q) == (q[1] + q[2] - 1) \div q[2]

\* ToIntegerOrInfinity of a non-negative fraction (what slice does to its end)
ToInteger(q) == q[1] \div q[2]

\* variant: the slice taken from the end of the array
Slice0_FromEnd(arr, end) ==
    LET e == IF ToInteger(end) > Len(arr) THEN Len(arr) ELSE ToInteger(end)
    IN  [i \in 1 .. e |-> arr[Len(arr) - e + i]]

\* Array.prototype.slice(0, end)
Slice0(arr, end) ==
    LET e == IF ToInteger(end) > Len(arr) THEN Len(arr) ELSE ToInteger(end)
    IN  [i \in 1 .. e |-> arr[i]]

\* arr without its i-th element
RemoveAt(arr, i) ==
    [j \in 1 .. (Len(arr) - 1) |-> IF j < i THEN arr[j] ELSE arr[j + 1]]

\* every result Array.prototype.sort may give with the comparator
\* function (a, b) { return b[0] - a[0]; }: descending timestamps, elements
\* that compare equal in an order the engine chooses
RECURSIVE SortDescending(_)
SortDescending(arr) ==
    IF arr = << >> THEN { << >> }
    ELSE UNION { { <<arr[i]>> \o rest : rest \in SortDescending(RemoveAt(arr, i)) } :
                   i \in { k \in 1 .. Len(arr) :
                            \A j \in 1 .. Len(arr) : arr[k][1] >= arr[j][1] } }

(***************************************************************************)
(* The fleet: server objects by uuid.                                      *)
(***************************************************************************)
EmptyMap == [u \in {} |-> 0]

ServerOf(u) == [uuid |-> u, vms |-> 1 .. (u % 3)]

(***************************************************************************)
(* soft-filter-recent-servers.js                                           *)
(***************************************************************************)
\* variant: MAX_AGE taken for seconds
CutoffTimestamp_Seconds(t) == t - MAX_AGE * 1000

\* var cutoffTimestamp = +new Date() - MAX_AGE
CutoffTimestamp(t) == t - MAX_AGE

\* variant: an entry exactly MAX_AGE old expires too
IsExpired_Inclusive(timestamp, cutoffTimestamp) == timestamp <= cutoffTimestamp

\* recentlySeen[uuid] < cutoffTimestamp
IsExpired(timestamp, cutoffTimestamp) == timestamp < cutoffTimestamp

\* variant: expired entries are left in place
updateRecentServers_NoPurge(st, t) ==
    [has_recent_servers |-> TRUE,
     recent_servers |-> IF st.has_recent_servers THEN st.recent_servers ELSE EmptyMap]

\* updateRecentServers: the state after the call; the function returns
\* state.recent_servers of that state
updateRecentServers(st, t) ==
    LET cutoffTimestamp == CutoffTimestamp(t)
        recentlySeen == IF st.has_recent_servers THEN st.recent_servers ELSE EmptyMap
        kept == { uuid \in DOMAIN recentlySeen :
                    ~IsExpired(recentlySeen[uuid], cutoffTimestamp) }
    IN  [has_recent_servers |-> TRUE,
         recent_servers |-> [uuid \in kept |-> recentlySeen[uuid]]]

\* if (timestamp): undefined and 0 are falsy
Truthy(recentlySeen, uuid) ==
    uuid \in DOMAIN recentlySeen /\ recentlySeen[uuid] # 0

\* findCollidingServers: [timestamp, uuid] pairs in the order of servers
RECURSIVE findCollidingServers(_, _)
findCollidingServers(servers, recentlySeen) ==
    IF servers = << >> THEN << >>
    ELSE LET uuid == Head(servers).uuid
             rest == findCollidingServers(Tail(servers), recentlySeen)
         IN  IF Truthy(recentlySeen, uuid)
             THEN <<<<recentlySeen[uuid], uuid>>>> \o rest
             ELSE rest

\* variant: the cap on the removed share left out
NumToRemove_NoCap(servers, colliding) == <<Len(colliding), 1>>

\* Math.min(servers.length * MAX_REMOVED_RATIO, colliding.length)
NumToRemove(servers, colliding) ==
    MathMin(Times(Len(servers), MAX_REMOVED_RATIO), Len(colliding))

\* the lists removeServers may be bound to
RemoveServers(servers, colliding) ==
    LET numToRemove == NumToRemove(servers, colliding)
    IN  IF StrictEq(numToRemove, Len(colliding))
        THEN {colliding}
        ELSE { Slice0(ordered, numToRemove) : ordered \in SortDescending(colliding) }

\* servers.filter(function (server) { return removeUuids.indexOf(server.uuid) === -1; })
RECURSIVE FilterNotRemoved(_, _)
FilterNotRemoved(servers, removeUuids) ==
    IF servers = << >> THEN << >>
    ELSE LET rest == FilterNotRemoved(Tail(servers), removeUuids)
         IN  IF NotIn(removeUuids, Head(servers).uuid)
             THEN <<Head(servers)>> \o rest
             ELSE rest

Reverse(arr) == [i \in 1 .. Len(arr) |-> arr[Len(arr) + 1 - i]]

\* variant: the survivors come out in reverse order
NewestRemoved_Reversed(servers, removeServers) ==
    Reverse(FilterNotRemoved(servers, UuidsOf(removeServers)))

NewestRemoved(servers, removeServers) ==
    FilterNotRemoved(servers, UuidsOf(removeServers))

\* variant: with no recent candidate the first candidate is dropped
removeCollidingServers_DropsFirst(servers, colliding) ==
    IF Len(colliding) = 0
    THEN {IF servers = << >> THEN servers ELSE Tail(servers)}
    ELSE { NewestRemoved(servers, removeServers) :
             removeServers \in RemoveServers(servers, colliding) }

\* removeCollidingServers: the lists it may return
removeCollidingServers(servers, colliding) ==
    IF Len(colliding) = 0
    THEN {servers}
    ELSE { NewestRemoved(servers, removeServers) :
             removeServers \in RemoveServers(servers, colliding) }

\* filterRecentServers: the values run may return (the bare server list)
filterRecentServers(st, servers, t) ==
    LET recentlySeen == updateRecentServers(st, t).recent_servers
        collidingServers == findCollidingServers(servers, recentlySeen)
    IN  removeCollidingServers(servers, collidingServers)

\* variant: the map is replaced by one holding the posted server only
addToRecentServers_Replaces(st, server, t) ==
    [st EXCEPT !.recent_servers = [uuid \in {server.uuid} |-> t]]

\* addToRecentServers: state.recent_servers[server.uuid] = +new Date()
addToRecentServers(st, server, t) ==
    [st EXCEPT !.recent_servers =
        [uuid \in DOMAIN st.recent_servers \cup {server.uuid} |->
            IF uuid = server.uuid THEN t ELSE st.recent_servers[uuid]]]

(***************************************************************************)
(* hard-filter-vm-count                                                    *)
(***************************************************************************)
\* JavaScript values a defaults attribute may hold
JsUndefined == [t |-> "undefined", n |-> 0, digits |-> << >>]
JsNull == [t |-> "null", n |-> 0, digits |-> << >>]
JsNumber(n) == [t |-> "number", n |-> n, digits |-> << >>]
JsString(digits) == [t |-> "string", n |-> 0, digits |-> digits]

NaN == [nan |-> TRUE, v |-> 0]
Num(n) == [nan |-> FALSE, v |-> n]

\* the number a string of decimal digits denotes; "" denotes 0
RECURSIVE ParseDigits(_)
ParseDigits(digits) ==
    IF digits = << >> THEN 0
    ELSE 10 * ParseDigits(SubSeq(digits, 1, Len(digits) - 1)) + digits[Len(digits)]

\* unary plus: ToNumber
ToNumber(x) ==
    CASE x.t = "undefined" -> NaN
      [] x.t = "null" -> Num(0)
      [] x.t = "number" -> Num(x.n)
      [] x.t = "string" -> Num(ParseDigits(x.digits))

\* variant: the documented default of 224 applied when the attribute is unset
VmLimit_Default224(constraints) ==
    IF constraints.defaults.filter_vm_limit.t = "undefined"
    THEN Num(224)
    ELSE ToNumber(constraints.defaults.filter_vm_limit)

\* var vmLimit = +constraints.defaults.filter_vm_limit
VmLimit(constraints) == ToNumber(constraints.defaults.filter_vm_limit)

\* variant: only the number 0 switches the filter off
NoLimit_OnlyZero(vmLimit) == ~vmLimit.nan /\ vmLimit.v = 0

\* if (!vmLimit): NaN and 0 are falsy
NoLimit(vmLimit) == vmLimit.nan \/ vmLimit.v = 0

\* Object.keys(server.vms).length
NumVms(server) == Cardinality(server.vms)

\* variant: a server exactly at the limit passes
AtLimit_Above(numVms, vmLimit) == ~vmLimit.nan /\ numVms > vmLimit.v

\* numVms >= vmLimit (false when vmLimit is NaN)
AtLimit(numVms, vmLimit) == ~vmLimit.nan /\ numVms >= vmLimit.v

\* 'Server has ' + numVms + ' VMs (limit is ' + vmLimit + ')'
Msg(numVms, vmLimit) == <<"Server has ", numVms, " VMs (limit is ", vmLimit.v, ")">>

ReasonsNull == [isNull |-> TRUE, map |-> EmptyMap]

\* variant: a map of reasons in capacity mode too
NewReasons_AlwaysMap(constraints) == [isNull |-> FALSE, map |-> EmptyMap]

\* var reasons = constraints.capacity ? null : {}
NewReasons(constraints) ==
    IF constraints.capacity THEN ReasonsNull ELSE [isNull |-> FALSE, map |-> EmptyMap]

\* variant: a server is only skipped when its reason is recorded
Skips_OnlyWithReasons(server, vmLimit, reasons) ==
    ~reasons.isNull /\ AtLimit(NumVms(server), vmLimit)

\* the filter callback returns false for server
Skips(server, vmLimit, reasons) == AtLimit(NumVms(server), vmLimit)

\* servers.filter(function (server) { ... })
RECURSIVE AdequateServers(_, _, _)
AdequateServers(servers, vmLimit, reasons) ==
    IF servers = << >> THEN << >>
    ELSE LET rest == AdequateServers(Tail(servers), vmLimit, reasons)
         IN  IF Skips(Head(servers), vmLimit, reasons)
             THEN rest
             ELSE <<Head(servers)>> \o rest

\* reasons after the filter: if (reasons) reasons[server.uuid] = msg
RecordedReasons(servers, vmLimit, reasons) ==
    IF reasons.isNull THEN reasons
    ELSE LET skipped == { i \in 1 .. Len(servers) : Skips(servers[i], vmLimit, reasons) }
             last(uuid) == CHOOSE i \in skipped :
                             /\ servers[i].uuid = uuid
                             /\ \A j \in skipped : servers[j].uuid = uuid => j <= i
         IN  [isNull |-> FALSE,
              map |-> [uuid \in { servers[i].uuid : i \in skipped } |->
                         Msg(NumVms(servers[last(uuid)]), vmLimit)]]

\* filterVmCount: [servers] or [adequateServers, reasons]
filterVmCount(servers, constraints) ==
    LET reasons == NewReasons(constraints)
        vmLimit == VmLimit(constraints)
    IN  IF NoLimit(vmLimit)
        THEN <<servers>>
        ELSE <<AdequateServers(servers, vmLimit, reasons),
               RecordedReasons(servers, vmLimit, reasons)>>

(***************************************************************************)
(* Inputs.                                                                 *)
(***************************************************************************)
\* the ascending sequence of a set of uuids
RECURSIVE Ascending(_)
Ascending(S) ==
    IF S = {} THEN << >>
    ELSE LET m == CHOOSE x \in S : \A y \in S : x <= y
         IN  <<m>> \o Ascending(S \ {m})

ServerList(uuids) == [i \in 1 .. Len(uuids) |-> ServerOf(uuids[i])]

\* candidate lists: some of the servers 1 .. k and the first a of the n
\* servers after them, each uuid once, in ascending order
ListsOver(k, n) ==
    { ServerList(Ascending(P \cup ((k + 1) .. (k + a)))) :
        P \in SUBSET (1 .. k), a \in 0 .. n }

CandidateLists == ListsOver(MaxChosen, MaxAlternatives)

Undefined == [has_recent_servers |-> FALSE, recent_servers |-> EmptyMap]

NoCall == [op |-> "none", at |-> StartClock, servers |-> << >>,
           before |-> Undefined, posted |-> {}, ret |-> << >>, threw |-> FALSE]

NoConstraints == [capacity |-> FALSE, defaults |-> [filter_vm_limit |-> JsUndefined]]

NoPipe == [stages |-> << >>, stage |-> "none", given |-> << >>, servers |-> << >>,
           constraints |-> NoConstraints, input |-> << >>, output |-> << >>]

(***************************************************************************)
(* The allocator around the soft recent-server filter.                     *)
(***************************************************************************)
Init ==
    /\ now = StartClock
    /\ state = Undefined
    /\ call = NoCall
    /\ posted = {}
    /\ chosen = {}
    /\ pipe = NoPipe

\* time passes between calls; call describes the call made by the last step
Tick ==
    /\ now + TickMs <= StartClock + MaxTicks * TickMs
    /\ now' = now + TickMs
    /\ call' = NoCall
    /\ UNCHANGED <<state, posted, chosen, pipe>>

\* plugin.run(log, state, servers)
Run(servers) ==
    /\ \E ret \in filterRecentServers(state, servers, now) :
         call' = [op |-> "run", at |-> now, servers |-> servers,
                  before |-> state, posted |-> posted, ret |-> ret,
                  threw |-> FALSE]
    /\ state' = updateRecentServers(state, now)
    /\ posted' = {}
    /\ UNCHANGED <<now, chosen, pipe>>

\* plugin.post(log, state, server): a TypeError when state.recent_servers
\* is undefined, and then nothing is written.  A post that follows the run
\* of the same allocation and selects one of its survivors extends the
\* streak of allocations to different servers (or starts a new one).
Post(server) ==
    /\ call' = [op |-> "post", at |-> now, servers |-> <<server>>,
                before |-> state, posted |-> posted, ret |-> << >>,
                threw |-> ~state.has_recent_servers]
    /\ state' = IF state.has_recent_servers
                THEN addToRecentServers(state, server, now)
                ELSE state
    /\ posted' = IF state.has_recent_servers
                 THEN posted \cup {server.uuid}
                 ELSE posted
    /\ chosen' = IF call.op = "run" /\ ~NotIn(call.ret, server)
                 THEN IF server.uuid \in chosen
                      THEN {server.uuid}
                      ELSE chosen \cup {server.uuid}
                 ELSE {}
    /\ UNCHANGED <<now, pipe>>

Next ==
    \/ Tick
    \/ \E servers \in CandidateLists : Run(servers)
    \/ \E u \in Pool : Post(ServerOf(u))

Spec == Init /\ [][Next]_vars

(***************************************************************************)
(* Single runs of the soft recent-server filter on any candidate list and  *)
(* any content of recent_servers.                                          *)
(***************************************************************************)
LastClock == StartClock + MaxTicks * TickMs

\* timestamps of entries: this millisecond, a millisecond ago, just expired
Stamps == {LastClock, LastClock - 1, LastClock - MAX_AGE - 1}

RecentMaps == UNION { [S -> Stamps] : S \in SUBSET (1 .. MaxRecent) }

InitFilter ==
    /\ now = LastClock
    /\ state \in { [has_recent_servers |-> TRUE, recent_servers |-> m] :
                      m \in RecentMaps }
    /\ call = NoCall
    /\ posted = {}
    /\ chosen = {}
    /\ pipe = NoPipe

\* one run per drawn state
NextFilter ==
    /\ call.op = "none"
    /\ \E servers \in ListsOver(MaxRecent, MaxOthers) : Run(servers)

SpecFilter == InitFilter /\ [][NextFilter]_vars

(***************************************************************************)
(* Single calls of hard-filter-vm-count.                                   *)
(***************************************************************************)
\* servers per call, and the numbers of VMs a server may have
MaxVmServers == 3
VmCounts == {0, 1, 2, 223, 224}

\* lists of n servers with uuids 1 .. n
VmLists ==
    UNION { { [i \in 1 .. n |-> [uuid |-> i, vms |-> 1 .. c[i]]] :
                c \in [1 .. n -> VmCounts] } : n \in 0 .. MaxVmServers }

VmLimits == {JsUndefined, JsNull, JsNumber(0), JsNumber(1), JsNumber(2),
             JsNumber(224), JsString(<<2>>)}

VmConstraints ==
    { [capacity |-> c, defaults |-> [filter_vm_limit |-> l]] :
        c \in BOOLEAN, l \in VmLimits }

\* plugin.run(log, state, servers, constraints)
CallVmCount(servers, constraints) ==
    /\ call.op = "none"
    /\ call' = [op |-> "vmcount", at |-> now, servers |-> servers,
                before |-> state, posted |-> posted,
                ret |-> filterVmCount(servers, constraints), threw |-> FALSE,
                constraints |-> constraints]
    /\ UNCHANGED <<now, state, posted, chosen, pipe>>

NextVm == \E servers \in VmLists, constraints \in VmConstraints :
             CallVmCount(servers, constraints)

SpecVm == Init /\ [][NextVm]_vars

(***************************************************************************)
(* A pipe of the two stages: each stage receives the servers that survived *)
(* the stage before it; the pipe stops on an empty list unless the caller  *)
(* is in capacity mode.                                                    *)
(***************************************************************************)
PipeOrders == { <<"vmcount", "recent">>, <<"recent", "vmcount">> }

PipeLists == CandidateLists \cup { Reverse(servers) : servers \in CandidateLists }

PipeConstraints ==
    { [capacity |-> c, defaults |-> [filter_vm_limit |-> l]] :
        c \in BOOLEAN, l \in {JsUndefined, JsNumber(1), JsNumber(2)} }

InitPipe ==
    /\ now = LastClock
    /\ state \in {Undefined} \cup
                 { [has_recent_servers |-> TRUE, recent_servers |-> m] :
                     m \in UNION { [S -> Stamps] : S \in SUBSET Pool } }
    /\ call = NoCall
    /\ posted = {}
    /\ chosen = {}
    /\ pipe = NoPipe

StartPipe(order, servers, constraints) ==
    /\ pipe.stage = "none"
    /\ pipe' = [stages |-> order, stage |-> "start", given |-> servers,
                servers |-> servers, constraints |-> constraints,
                input |-> << >>, output |-> << >>]
    /\ UNCHANGED <<now, state, call, posted, chosen>>

\* the next stage may run
PipeGoesOn ==
    /\ pipe.stages # << >>
    /\ Len(pipe.servers) > 0 \/ pipe.constraints.capacity

\* the servers surviving hard-filter-vm-count: element 0 of what it returns
StageVmCount ==
    /\ PipeGoesOn
    /\ Head(pipe.stages) = "vmcount"
    /\ LET ret == filterVmCount(pipe.servers, pipe.constraints)
       IN  pipe' = [pipe EXCEPT !.stages = Tail(pipe.stages), !.stage = "vmcount",
                                !.servers = ret[1], !.input = pipe.servers,
                                !.output = ret[1]]
    /\ UNCHANGED <<now, state, call, posted, chosen>>

\* the servers surviving the soft recent-server filter: the list it returns
StageRecent ==
    /\ PipeGoesOn
    /\ Head(pipe.stages) = "recent"
    /\ \E ret \in filterRecentServers(state, pipe.servers, now) :
         pipe' = [pipe EXCEPT !.stages = Tail(pipe.stages), !.stage = "recent",
                              !.servers = ret, !.input = pipe.servers,
                              !.output = ret]
    /\ state' = updateRecentServers(state, now)
    /\ UNCHANGED <<now, call, posted, chosen>>

StopEarly ==
    /\ pipe.stages # << >>
    /\ ~PipeGoesOn
    /\ pipe' = [pipe EXCEPT !.stages = << >>, !.stage = "stopped"]
    /\ UNCHANGED <<now, state, call, posted, chosen>>

NextPipe ==
    \/ \E order \in PipeOrders, servers \in PipeLists, constraints \in PipeConstraints :
          StartPipe(order, servers, constraints)
    \/ StageVmCount
    \/ StageRecent
    \/ StopEarly

SpecPipe == InitPipe /\ [][NextPipe]_vars

(***************************************************************************)
(* Properties of the soft recent-server filter.                            *)
(***************************************************************************)
Uuids(servers) == { servers[i].uuid : i \in 1 .. Len(servers) }

IsRun == call.op = "run"

\* the servers of the input of the last run that are not in its output
Removed == Uuids(call.servers) \ Uuids(call.ret)

\* uuid had an entry at most 5000 ms old when the last run started
WasRecent(uuid) ==
    /\ call.before.has_recent_servers
    /\ uuid \in DOMAIN call.before.recent_servers
    /\ call.at - call.before.recent_servers[uuid] <= 5000

\* the candidates of the last run that were recent
RecentCandidates == { uuid \in Uuids(call.servers) : WasRecent(uuid) }

\* C1: one run of the soft recent-server filter removes at most 25% of the
\* candidates: the servers in the input but not in the output number at
\* most 0.25 * N, for every candidate list and content of recent_servers.
C1_RemovesAtMostQuarter ==
    IsRun => 4 * Cardinality(Removed) <= Len(call.servers)

\* a run on 7 candidates, 3 of them recent, that removed one server
C1_Witness ==
    /\ IsRun
    /\ Len(call.servers) = 7
    /\ Cardinality(RecentCandidates) = 3
    /\ Cardinality(Removed) = 1

\* C2: after a run at time T, state.recent_servers holds no entry with
\* timestamp < T - 5000, whatever run and post calls came before.
C2_NoEntryOlderThanMaxAge ==
    IsRun => \A uuid \in DOMAIN state.recent_servers :
                state.recent_servers[uuid] >= call.at - 5000

\* a run that found an entry older than 5000 ms and one exactly 5000 ms old
C2_Witness ==
    /\ IsRun
    /\ \E uuid \in DOMAIN call.before.recent_servers :
          call.before.recent_servers[uuid] < call.at - 5000
    /\ \E uuid \in DOMAIN state.recent_servers :
          state.recent_servers[uuid] = call.at - 5000

\* X was recorded by post since the previous run, at most 5000 ms before
\* the last run, X is a candidate of that run, and the recent candidates
\* number at most 25% of the list
C3_Case(X) ==
    /\ IsRun
    /\ X \in call.posted
    /\ WasRecent(X)
    /\ X \in Uuids(call.servers)
    /\ 4 * Cardinality(RecentCandidates) <= Len(call.servers)

\* C3 as stated: in that case X is absent from the output and every other
\* candidate is present.
C3_Original ==
    \A X \in Pool :
        C3_Case(X) => /\ X \notin Uuids(call.ret)
                      /\ \A Y \in Uuids(call.servers) \ {X} : Y \in Uuids(call.ret)

\* C3 (amended): in that case X is absent from the output and every
\* candidate that is not recent itself is present; with X the only recent
\* candidate all the others remain.
C3_RecentlyPostedIsDropped ==
    \A X \in Pool :
        C3_Case(X) =>
            /\ X \notin Uuids(call.ret)
            /\ \A Y \in Uuids(call.servers) \ RecentCandidates : Y \in Uuids(call.ret)
            /\ RecentCandidates = {X} => Len(call.ret) = Len(call.servers) - 1

\* X posted exactly 5000 ms before a run on 8 candidates of which only X is
\* recent; 7 remain
C3_Witness ==
    \E X \in Pool :
        /\ C3_Case(X)
        /\ call.at - call.before.recent_servers[X] = 5000
        /\ RecentCandidates = {X}
        /\ Len(call.servers) = 8
        /\ Len(call.ret) = 7

\* the last run came after a streak of allocations that selected the
\* servers of chosen, each a different one, all within 5000 ms of the run,
\* and its candidates are those servers plus alternatives
C4_Case ==
    /\ IsRun
    /\ chosen # {}
    /\ call.posted # {}
    /\ \A uuid \in chosen : WasRecent(uuid)
    /\ chosen \subseteq Uuids(call.servers)
    /\ Uuids(call.servers) \ chosen # {}

\* ceil(0.25 * n)
CeilQuarter(n) == (n + 3) \div 4

C5_NeverEmpties ==
    (IsRun /\ Len(call.servers) > 0) => Len(call.ret) > 0

\* a run on four candidates, all of them recent, that removed one
C5_Witness ==
    /\ IsRun
    /\ Len(call.servers) = 4
    /\ RecentCandidates = Uuids(call.servers)
    /\ Len(call.ret) = 3

(***************************************************************************)
(* Properties of the pipe of both stages.                                  *)
(***************************************************************************)
\* a is b with some elements left out: same elements, same order, none twice
RECURSIVE IsSubsequence(_, _)
IsSubsequence(a, b) ==
    \/ a = << >>
    \/ /\ b # << >>
       /\ IF Head(a) = Head(b)
          THEN IsSubsequence(Tail(a), Tail(b))
          ELSE IsSubsequence(a, Tail(b))

\* C6: in a pipe of hard-filter-vm-count and the soft recent-server filter,
\* in either order, the server list a stage puts out is its input list
\* with some servers left out: the survivors in their input order, no
\* server added or duplicated.
C6_StageOutputIsSublist ==
    pipe.stage \in {"vmcount", "recent"} =>
        /\ IsSubsequence(pipe.output, pipe.input)
        /\ Uuids(pipe.output) \subseteq Uuids(pipe.input)
        /\ Cardinality(Uuids(pipe.output)) = Len(pipe.output)

\* a pipe on a descending list where hard-filter-vm-count removed servers
\* and then the soft filter removed one of those left
C6_Witness ==
    /\ pipe.stage = "recent"
    /\ pipe.stages = << >>
    /\ Len(pipe.given) > Len(pipe.input)
    /\ Len(pipe.input) > Len(pipe.output)
    /\ Len(pipe.output) > 1
    /\ pipe.given[1].uuid > pipe.given[2].uuid

(***************************************************************************)
(* Properties of hard-filter-vm-count.                                     *)
(***************************************************************************)
IsVmCount == call.op = "vmcount"

\* the value of defaults.filter_vm_limit in the last call
LimitGiven == call.constraints.defaults.filter_vm_limit

InList(servers, server) == \E i \in 1 .. Len(servers) : servers[i] = server

\* the servers of the list with fewer than limit VMs, in their order
FewerVmsThan(servers, limit) ==
    SelectSeq(servers, LAMBDA server : Cardinality(server.vms) < limit)

\* C7: with defaults.filter_vm_limit a positive number L,
\* hard-filter-vm-count returns exactly the input servers with fewer than L
\* VMs: a server with L VMs is removed, one with L - 1 VMs is kept.
C7_KeepsFewerThanLimit ==
    (IsVmCount /\ LimitGiven.t = "number" /\ LimitGiven.n > 0) =>
        call.ret[1] = FewerVmsThan(call.servers, LimitGiven.n)

\* a call with limit 224 on a server with 223 VMs, kept, and one with 224
\* VMs, removed
C7_Witness ==
    /\ IsVmCount
    /\ LimitGiven = JsNumber(224)
    /\ \E i, j \in 1 .. Len(call.servers) :
          /\ NumVms(call.servers[i]) = 223
          /\ InList(call.ret[1], call.servers[i])
          /\ NumVms(call.servers[j]) = 224
          /\ ~InList(call.ret[1], call.servers[j])

C10_Original ==
    (IsVmCount /\ call.constraints.capacity) =>
        \A i \in 1 .. Len(call.servers) : InList(call.ret[1], call.servers[i])

\* C10 (amended): in capacity mode hard-filter-vm-count removes the servers
\* at or above the limit as it does otherwise; it returns every input
\* server only when no limit is in force, and what capacity mode changes
\* is that the reasons it returns are null.
C10_CapacityModeStillFilters ==
    (IsVmCount /\ call.constraints.capacity) =>
        LET limit == ToNumber(LimitGiven)
        IN  IF limit.nan \/ limit.v = 0
            THEN call.ret[1] = call.servers
            ELSE /\ call.ret[1] = FewerVmsThan(call.servers, limit.v)
                 /\ call.ret[2].isNull

\* a call in capacity mode with limit 2 that removed a server with 2 VMs
C10_Witness ==
    /\ IsVmCount
    /\ call.constraints.capacity
    /\ LimitGiven = JsNumber(2)
    /\ \E i \in 1 .. Len(call.servers) :
          /\ NumVms(call.servers[i]) = 2
          /\ ~InList(call.ret[1], call.servers[i])

(***************************************************************************)
(* The value run returns, as its caller reads it: ret[0] is the list of    *)
(* surviving servers, ret[1] the reasons.                                  *)
(***************************************************************************)
\* ret[0] where ret is what filterVmCount returned: return ([servers]) and
\* return ([adequateServers, reasons]) both put the list at element 0
VmCountElementZero(ret) == [t |-> "array", elems |-> ret[1]]

\* ret[0] where ret is what filterRecentServers returned: return
\* adequateServers gives the list itself, whose element 0 is its first
\* server object, or undefined when the list is empty
RecentElementZero(ret) ==
    IF ret = << >>
    THEN [t |-> "undefined"]
    ELSE [t |-> "object", obj |-> ret[1]]

\* e is an array holding servers of the input list in their input order
IsSurvivorList(e, servers) ==
    /\ e.t = "array"
    /\ IsSubsequence(e.elems, servers)

\* C11: run of either plugin returns a list whose element 0 is the list of
\* surviving servers, on every input and in every state.
C11_Original ==
    /\ IsVmCount => IsSurvivorList(VmCountElementZero(call.ret), call.servers)
    /\ IsRun => IsSurvivorList(RecentElementZero(call.ret), call.servers)

(***************************************************************************)
(* validations.js: JavaScript values.  undefined and null are JsUndefined  *)
(* and JsNull; a number is held in hundredths, so that 0.01 is exact; a    *)
(* string is a TLA+ string; an array holds a sequence of values and an     *)
(* object a function from property names to values.                        *)
(***************************************************************************)
JsBoolean(b) == [t |-> "boolean", b |-> b]
\* the number h / 100
JsDecimal(h) == [t |-> "number", nan |-> FALSE, h |-> h]
JsNaN == [t |-> "number", nan |-> TRUE, h |-> 0]
JsText(s) == [t |-> "string", s |-> s]
JsArray(elems) == [t |-> "array", elems |-> elems]
JsObject(f) == [t |-> "object", f |-> f]
EmptyObject == JsObject([name \in {} |-> JsUndefined])

\* typeof (v)
TypeOf(v) ==
    IF v.t \in {"null", "array", "object"} THEN "object" ELSE v.t

\* Array.isArray(v)
IsArray(v) == v.t = "array"

\* v in a condition: undefined, null, false, 0, NaN and '' are falsy
ToBoolean(v) ==
    CASE v.t \in {"undefined", "null"} -> FALSE
      [] v.t = "boolean" -> v.b
      [] v.t = "number" -> ~v.nan /\ v.h # 0
      [] v.t = "string" -> v.s # ""
      [] OTHER -> TRUE

\* v.name can be evaluated: reading a property of undefined or null is a
\* TypeError
CanRead(v) == v.t \notin {"undefined", "null"}

\* v.name or v[name] for a readable v and a name that is not an array index
\* nor a property of a prototype
Get(v, name) ==
    IF v.t = "object" /\ name \in DOMAIN v.f THEN v.f[name] ELSE JsUndefined

\* Object.keys(v) of a hash, in insertion order (here: any fixed order)
RECURSIVE SetToSeq(_)
SetToSeq(S) ==
    IF S = {} THEN << >>
    ELSE LET x == CHOOSE y \in S : TRUE IN <<x>> \o SetToSeq(S \ {x})

Keys(v) == SetToSeq(DOMAIN v.f)

\* v with property name set to x (v is an object)
Put(v, name, x) ==
    JsObject([n \in DOMAIN v.f \cup {name} |-> IF n = name THEN x ELSE v.f[n]])

DigitChars == <<"0", "1", "2", "3", "4", "5", "6", "7", "8", "9">>

\* the decimal digits of a natural number
RECURSIVE NatToString(_)
NatToString(n) ==
    IF n < 10 THEN DigitChars[n + 1]
    ELSE NatToString(n \div 10) \o DigitChars[(n % 10) + 1]

\* Number.prototype.toString of h / 100
NumberToString(h) ==
    LET a == IF h < 0 THEN 0 - h ELSE h
        int == NatToString(a \div 100)
        frac == a % 100
        digits == IF frac = 0 THEN int
                  ELSE IF frac % 10 = 0
                       THEN int \o "." \o DigitChars[(frac \div 10) + 1]
                       ELSE int \o "." \o DigitChars[(frac \div 10) + 1]
                                \o DigitChars[(frac % 10) + 1]
    IN  IF h < 0 THEN "-" \o digits ELSE digits

\* ToString: what string concatenation and RegExp.prototype.test make of v
RECURSIVE JsToString(_)
RECURSIVE Join(_)
JsToString(v) ==
    CASE v.t = "undefined" -> "undefined"
      [] v.t = "null" -> "null"
      [] v.t = "boolean" -> IF v.b THEN "true" ELSE "false"
      [] v.t = "number" -> IF v.nan THEN "NaN" ELSE NumberToString(v.h)
      [] v.t = "string" -> v.s
      [] v.t = "array" -> Join(v.elems)
      [] v.t = "object" -> "[object Object]"

\* Array.prototype.join(','): undefined and null elements give ''
Join(elems) ==
    IF elems = << >> THEN ""
    ELSE LET first == IF Head(elems).t \in {"undefined", "null"}
                      THEN ""
                      ELSE JsToString(Head(elems))
         IN  IF Len(elems) = 1 THEN first
             ELSE first \o "," \o Join(Tail(elems))

(***************************************************************************)
(* validations.js: the regular expressions.  Each is anchored and matches  *)
(* strings of one length, so it is the sequence of the sets of characters  *)
(* allowed at each position.                                               *)
(***************************************************************************)
DigitSet == {"0", "1", "2", "3", "4", "5", "6", "7", "8", "9"}
HexSet == DigitSet \cup {"a", "b", "c", "d", "e", "f"}

Rep(n, S) == [i \in 1 .. n |-> S]

\* /^20\d\d[01]\d[0123]\dT[012]\d[012345]\d\d\dZ$/
PLATFORM_RE ==
    <<{"2"}, {"0"}, DigitSet, DigitSet, {"0", "1"}, DigitSet,
      {"0", "1", "2", "3"}, DigitSet, {"T"}, {"0", "1", "2"}, DigitSet,
      {"0", "1", "2", "3", "4", "5"}, DigitSet, DigitSet, DigitSet, {"Z"}>>

\* /^\d\.\d$/
SDC_VERSION_RE == <<DigitSet, {"."}, DigitSet>>

\* /^[a-f0-9]{8}-[a-f0-9]{4}-[a-f0-9]{4}-[a-f0-9]{4}-[a-f0-9]{12}$/
UUID_RE ==
    Rep(8, HexSet) \o <<{"-"}>> \o Rep(4, HexSet) \o <<{"-"}>> \o
    Rep(4, HexSet) \o <<{"-"}>> \o Rep(4, HexSet) \o <<{"-"}>> \o
    Rep(12, HexSet)

\* the whole of s matches re
Matches(re, s) ==
    /\ Len(s) = Len(re)
    /\ \A i \in 1 .. Len(re) : SubSeq(s, i, i) \in re[i]

\* re.test(v): v is converted to a string first
RegExpTest(re, v) == Matches(re, JsToString(v))

\* the value of a validation call: what it returned, or that it threw
Returns(v) == [threw |-> FALSE, v |-> v]
Throws == [threw |-> TRUE, v |-> JsUndefined]
Valid == Returns(JsNull)
Invalid(msg) == Returns(JsText(msg))

\* if (msg) after msg = validate...(x)
HasMsg(r) == ~r.threw /\ ToBoolean(r.v)

\* isHash(obj)
isHash(obj) == ToBoolean(obj) /\ TypeOf(obj) = "object" /\ ~IsArray(obj)

\* variant: a list with an element that is not a hash is refused
validateServers_ChecksElements(servers) ==
    IF ~IsArray(servers)
    THEN Invalid("\"servers\" input is not an array")
    ELSE IF Len(servers.elems) = 0
         THEN Invalid("\"servers\" array is empty")
         ELSE IF \E i \in 1 .. Len(servers.elems) : ~isHash(servers.elems[i])
              THEN Invalid("\"servers\" contains an invalid server")
              ELSE Valid

\* validateServers
validateServers(servers) ==
    IF ~IsArray(servers)
    THEN Invalid("\"servers\" input is not an array")
    ELSE IF Len(servers.elems) = 0
         THEN Invalid("\"servers\" array is empty")
         ELSE Valid

\* validateTicket
validateTicket(ticket) ==
    IF ~isHash(ticket) THEN Invalid("\"ticket\" has invalid type")
    ELSE IF ~RegExpTest(UUID_RE, Get(ticket, "id"))
    THEN Invalid("\"id\" is not a valid UUID")
    ELSE IF ~RegExpTest(UUID_RE, Get(ticket, "server_uuid"))
    THEN Invalid("\"server_uuid\" is not a valid UUID")
    ELSE IF TypeOf(Get(ticket, "scope")) # "string"
    THEN Invalid("\"scope\" is not a string")
    ELSE IF TypeOf(Get(ticket, "action")) # "string"
    THEN Invalid("\"action\" is not a string")
    ELSE IF TypeOf(Get(ticket, "status")) # "string"
    THEN Invalid("\"status\" is not a string")
    ELSE Valid

\* the loop of validateTickets from element i on: the message of the first
\* invalid ticket is prefixed with ticket.id, which is a TypeError when
\* the ticket is undefined or null
RECURSIVE validateTicketsFrom(_, _)
validateTicketsFrom(tickets, i) ==
    IF i > Len(tickets) THEN Valid
    ELSE LET ticket == tickets[i]
             msg == validateTicket(ticket)
         IN  IF HasMsg(msg)
             THEN IF CanRead(ticket)
                  THEN Invalid("ticket uuid \"" \o JsToString(Get(ticket, "id"))
                               \o "\" - " \o msg.v.s)
                  ELSE Throws
             ELSE validateTicketsFrom(tickets, i + 1)

\* validateTickets
validateTickets(tickets) ==
    IF ~IsArray(tickets)
    THEN Invalid("\"tickets\" is not an array")
    ELSE validateTicketsFrom(tickets.elems, 1)

AFFINITY_STR_ATTR == <<"key", "operator", "value", "valueType">>
AFFINITY_VALUE_TYPES == <<"exact", "glob", "re">>

\* Array.prototype.indexOf(v) === -1 on an array of strings
NotAmong(strings, v) ==
    \A i \in 1 .. Len(strings) : ~(v.t = "string" /\ v.s = strings[i])

\* the body of the outer loop of validateAffinity for one element, which
\* is readable
validateOneAffinity(affinity) ==
    LET notString == { j \in 1 .. Len(AFFINITY_STR_ATTR) :
                         TypeOf(Get(affinity, AFFINITY_STR_ATTR[j])) # "string" }
        first == CHOOSE j \in notString : \A k \in notString : j <= k
        operator == Get(affinity, "operator")
    IN  IF notString # {}
        THEN Invalid("\"affinity." \o AFFINITY_STR_ATTR[first] \o "\" is not a string")
        ELSE IF TypeOf(Get(affinity, "isSoft")) # "boolean"
        THEN Invalid("\"affinity.isSoft\" is not a boolean")
        ELSE IF operator.s # "==" /\ operator.s # "!="
        THEN Invalid("\"affinity.operator\" has invalid operator")
        ELSE IF NotAmong(AFFINITY_VALUE_TYPES, Get(affinity, "valueType"))
        THEN Invalid("\"affinity.valueType\" has invalid value")
        ELSE Valid

\* the outer loop of validateAffinity from element i on: affinity[attr] is
\* a TypeError when the element is undefined or null
RECURSIVE validateAffinityFrom(_, _)
validateAffinityFrom(affinities, i) ==
    IF i > Len(affinities) THEN Valid
    ELSE IF ~CanRead(affinities[i]) THEN Throws
    ELSE LET msg == validateOneAffinity(affinities[i])
         IN  IF HasMsg(msg) THEN msg
             ELSE validateAffinityFrom(affinities, i + 1)

\* validateAffinity
validateAffinity(affinities) ==
    IF ~ToBoolean(affinities) THEN Valid
    ELSE IF ~IsArray(affinities) THEN Invalid("\"affinity\" is not an array")
    ELSE validateAffinityFrom(affinities.elems, 1)

\* check(hintName) inside validateLocality
checkHint(locality, hintName) ==
    LET hint == Get(locality, hintName)
        errKey == "\"locality." \o hintName \o "\""
    IN  IF ~ToBoolean(hint) THEN Valid
        ELSE IF TypeOf(hint) # "string" /\ ~IsArray(hint)
        THEN Invalid(errKey \o " is neither string nor array")
        ELSE IF TypeOf(hint) = "string" /\ ~RegExpTest(UUID_RE, hint)
        THEN Invalid(errKey \o " is not a UUID")
        ELSE IF IsArray(hint) /\ \E i \in 1 .. Len(hint.elems) :
                                    ~RegExpTest(UUID_RE, hint.elems[i])
        THEN Invalid(errKey \o " contains an malformed UUID")
        ELSE Valid

\* validateLocality
validateLocality(locality) ==
    IF ~ToBoolean(locality) THEN Valid
    ELSE IF ~isHash(locality) THEN Invalid("\"locality\" is has wrong type")
    ELSE IF HasMsg(checkHint(locality, "near")) THEN checkHint(locality, "near")
    ELSE IF HasMsg(checkHint(locality, "far")) THEN checkHint(locality, "far")
    ELSE IF /\ TypeOf(Get(locality, "strict")) # "undefined"
            /\ TypeOf(Get(locality, "strict")) # "boolean"
    THEN Invalid("\"locality.strict\" is given, but not boolean")
    ELSE Valid

\* a value a trait may have: a boolean, a string or a list of strings
IsTraitValue(v) ==
    \/ v.t \in {"boolean", "string"}
    \/ v.t = "array" /\ \A i \in 1 .. Len(v.elems) : v.elems[i].t = "string"

\* validateTraits: the traits schema is met by a hash of trait values; the
\* text of the message is the schema library's
validateTraits(traits) ==
    IF isHash(traits) /\ \A name \in DOMAIN traits.f : IsTraitValue(traits.f[name])
    THEN Valid
    ELSE Invalid("property has invalid type")

\* the nic_tags part of validateVm
validateNicTags(tags) ==
    IF ~ToBoolean(tags) THEN Valid
    ELSE IF ~IsArray(tags) THEN Invalid("VM \"nic_tags\" is not an array")
    ELSE IF \E i \in 1 .. Len(tags.elems) : TypeOf(tags.elems[i]) # "string"
    THEN Invalid("VM \"nic_tags\" contains invalid type in array")
    ELSE Valid

\* if (vm.attr) { msg = validate(vm.attr); if (msg) return ('VM ' + msg); }
\* a call that throws leaves validateVm at once
VmPart(r) ==
    IF r.threw THEN r
    ELSE IF HasMsg(r) THEN Invalid("VM " \o r.v.s)
    ELSE Valid

\* variant: a later failing check takes precedence
Then_LaterWins(r, rest) == IF rest.threw \/ HasMsg(rest) THEN rest ELSE r

\* the part of a validator left when a check passes: a check that returned
\* a message or threw ends the validator with it
Then(r, rest) == IF r.threw \/ HasMsg(r) THEN r ELSE rest

\* validateVm
validateVm(vm) ==
    IF ~isHash(vm) THEN Invalid("VM object is an invalid type")
    ELSE IF ~RegExpTest(UUID_RE, Get(vm, "owner_uuid"))
    THEN Invalid("VM \"owner_uuid\" is not a valid UUID")
    ELSE IF TypeOf(Get(vm, "ram")) # "number"
    THEN Invalid("VM \"ram\" is not a number")
    ELSE IF ToBoolean(Get(vm, "quota")) /\ TypeOf(Get(vm, "quota")) # "number"
    THEN Invalid("VM \"quota\" is not a number")
    ELSE IF ToBoolean(Get(vm, "cpu_cap")) /\ TypeOf(Get(vm, "cpu_cap")) # "number"
    THEN Invalid("VM \"cpu_cap\" is not a number")
    ELSE
    Then(IF ToBoolean(Get(vm, "traits"))
         THEN VmPart(validateTraits(Get(vm, "traits"))) ELSE Valid,
    Then(IF ToBoolean(Get(vm, "affinity"))
         THEN VmPart(validateAffinity(Get(vm, "affinity"))) ELSE Valid,
    Then(IF ToBoolean(Get(vm, "locality"))
         THEN VmPart(validateLocality(Get(vm, "locality"))) ELSE Valid,
    validateNicTags(Get(vm, "nic_tags")))))

(***************************************************************************)
(* JSON.parse and ToNumber on strings.  The texts read are those without   *)
(* white space, escapes, exponents or more than two decimals.              *)
(***************************************************************************)
\* F(x), with x evaluated once
Bind(x, F(_)) == CHOOSE out \in { F(v) : v \in {x} } : TRUE

CharAt(s, i) == SubSeq(s, i, i)

\* p is in s at position i
HasAt(s, i, p) == i + Len(p) - 1 <= Len(s) /\ SubSeq(s, i, i + Len(p) - 1) = p

DigitValue(c) == CHOOSE d \in 0 .. 9 : DigitChars[d + 1] = c

\* the number of digits in s from position i on
RECURSIVE DigitRun(_, _)
DigitRun(s, i) ==
    IF i <= Len(s) /\ CharAt(s, i) \in DigitSet THEN 1 + DigitRun(s, i + 1) ELSE 0

\* the natural number the digits of s at positions from .. to denote
RECURSIVE DigitsToNat(_, _, _)
DigitsToNat(s, from, to) ==
    IF to < from THEN 0
    ELSE 10 * DigitsToNat(s, from, to - 1) + DigitValue(CharAt(s, to))

\* the position of the first double quote of s at or after i, 0 when it
\* has none
RECURSIVE QuoteAt(_, _)
QuoteAt(s, i) ==
    IF i > Len(s) THEN 0
    ELSE IF CharAt(s, i) = "\"" THEN i
    ELSE QuoteAt(s, i + 1)

\* what a parser gives: the value read and the position after it
NoParse == [ok |-> FALSE, v |-> JsUndefined, next |-> 0]
Parsed(v, next) == [ok |-> TRUE, v |-> v, next |-> next]

\* a number in s at position i: -? digits (. digits)?, in hundredths;
\* json says whether the JSON grammar applies (no leading zeros)
ParseNumber(s, i, json) ==
    LET neg == HasAt(s, i, "-")
        start == IF neg THEN i + 1 ELSE i
    IN  Bind(IF json /\ HasAt(s, start, "0") THEN 1 ELSE DigitRun(s, start), LAMBDA n :
        Bind(IF HasAt(s, start + n, ".") THEN DigitRun(s, start + n + 1) ELSE 0, LAMBDA f :
          LET dot == start + n
              int == DigitsToNat(s, start, dot - 1)
              frac == IF f = 0 THEN 0
                      ELSE IF f = 1 THEN 10 * DigitsToNat(s, dot + 1, dot + 1)
                      ELSE DigitsToNat(s, dot + 1, dot + 2)
              h == 100 * int + frac
          IN  IF n = 0 \/ (HasAt(s, dot, ".") /\ f = 0) \/ f > 2
              THEN NoParse
              ELSE Parsed(JsDecimal(IF neg THEN 0 - h ELSE h),
                          IF f = 0 THEN dot ELSE dot + 1 + f)))

\* a JSON string in s at position i
ParseString(s, i) ==
    Bind(QuoteAt(s, i + 1), LAMBDA q :
        IF ~HasAt(s, i, "\"") \/ q = 0 THEN NoParse
        ELSE Parsed(JsText(SubSeq(s, i + 1, q - 1)), q + 1))

RECURSIVE ParseValue(_, _)
RECURSIVE ParseElements(_, _, _)
RECURSIVE ParseMembers(_, _, _)
\* a JSON value in s at position i
ParseValue(s, i) ==
    IF HasAt(s, i, "null") THEN Parsed(JsNull, i + 4)
    ELSE IF HasAt(s, i, "true") THEN Parsed(JsBoolean(TRUE), i + 4)
    ELSE IF HasAt(s, i, "false") THEN Parsed(JsBoolean(FALSE), i + 5)
    ELSE IF HasAt(s, i, "\"") THEN ParseString(s, i)
    ELSE IF HasAt(s, i, "[]") THEN Parsed(JsArray(<< >>), i + 2)
    ELSE IF HasAt(s, i, "[") THEN ParseElements(s, i + 1, << >>)
    ELSE IF HasAt(s, i, "{}") THEN Parsed(EmptyObject, i + 2)
    ELSE IF HasAt(s, i, "{") THEN ParseMembers(s, i + 1, EmptyObject)
    ELSE ParseNumber(s, i, TRUE)

\* the elements of an array after its [ or a comma, up to its ]
ParseElements(s, i, elems) ==
    Bind(ParseValue(s, i), LAMBDA e :
        IF ~e.ok THEN NoParse
        ELSE IF HasAt(s, e.next, ",")
        THEN ParseElements(s, e.next + 1, Append(elems, e.v))
        ELSE IF HasAt(s, e.next, "]")
        THEN Parsed(JsArray(Append(elems, e.v)), e.next + 1)
        ELSE NoParse)

\* the members of an object after its { or a comma, up to its }
ParseMembers(s, i, obj) ==
    Bind(ParseString(s, i), LAMBDA k :
        IF ~k.ok \/ ~HasAt(s, k.next, ":") THEN NoParse
        ELSE Bind(ParseValue(s, k.next + 1), LAMBDA e :
            IF ~e.ok THEN NoParse
            ELSE IF HasAt(s, e.next, ",")
            THEN ParseMembers(s, e.next + 1, Put(obj, k.v.s, e.v))
            ELSE IF HasAt(s, e.next, "}")
            THEN Parsed(Put(obj, k.v.s, e.v), e.next + 1)
            ELSE NoParse))

\* JSON.parse(v): v is converted to a string first; ok is false for a
\* SyntaxError
JSONParse(v) ==
    Bind(JsToString(v), LAMBDA s :
        Bind(ParseValue(s, 1), LAMBDA r :
            IF r.ok /\ r.next = Len(s) + 1 THEN r ELSE NoParse))

\* ToNumber of a string: '' is 0, a decimal numeral its value, else NaN
StringToNumber(text) ==
    Bind(text, LAMBDA s :
        Bind(ParseNumber(s, 1, FALSE), LAMBDA r :
            IF Len(s) = 0 THEN JsDecimal(0)
            ELSE IF r.ok /\ r.next = Len(s) + 1 THEN r.v
            ELSE JsNaN))

\* ToNumber(v), what +v and v - x make of v: an array or object is
\* converted to a string first
ToDecimal(v) ==
    CASE v.t = "undefined" -> JsNaN
      [] v.t = "null" -> JsDecimal(0)
      [] v.t = "boolean" -> JsDecimal(IF v.b THEN 100 ELSE 0)
      [] v.t = "number" -> v
      [] OTHER -> StringToNumber(JsToString(v))

\* isNaN(+v) and Number.isNaN(+v)
IsNaNPlus(v) == ToDecimal(v).nan

(***************************************************************************)
(* validations.js: the VM payload.  A validator that assigns to a property *)
(* of its argument gives its value together with the argument after it.    *)
(***************************************************************************)
\* 0.01, in hundredths
SAFETY_DELTA == 1

\* x < y on numbers: false when either is NaN
Less(x, y) == ~x.nan /\ ~y.nan /\ x.h < y.h

\* minRam - SAFETY_DELTA: a subtraction of numbers
MinusDelta(v) ==
    LET n == ToDecimal(v)
    IN  IF n.nan THEN JsNaN ELSE JsDecimal(n.h - SAFETY_DELTA)

\* vm.ram < minRam - SAFETY_DELTA
RamTooSmall(ram, minRam) == Less(ram, MinusDelta(minRam))

\* maxRam + SAFETY_DELTA: an addition of numbers unless maxRam is a string,
\* an array or an object, which + concatenates with '0.01'; the comparison
\* then converts the text to a number
PlusDelta(v) ==
    IF v.t \in {"string", "array", "object"}
    THEN StringToNumber(JsToString(v) \o NumberToString(SAFETY_DELTA))
    ELSE LET n == ToDecimal(v)
         IN  IF n.nan THEN JsNaN ELSE JsDecimal(n.h + SAFETY_DELTA)

\* vm.ram > maxRam + SAFETY_DELTA
RamTooLarge(ram, maxRam) == Less(PlusDelta(maxRam), ram)

\* if (minRam && ...), if (maxRam && ...): 0 is taken for no limit
RamLimitGiven(limit) == ToBoolean(limit)

\* the requirements part of validateVmPayload
checkRequirements(vm, requirements) ==
    LET minRam == Get(requirements, "min_ram")
        maxRam == Get(requirements, "max_ram")
        ram == Get(vm, "ram")
    IN  IF ~ToBoolean(requirements) THEN Valid
        ELSE IF RamLimitGiven(minRam) /\ RamTooSmall(ram, minRam)
        THEN Invalid("\"vm.ram\" is smaller than \"image.requirements.min_ram\"")
        ELSE IF RamLimitGiven(maxRam) /\ RamTooLarge(ram, maxRam)
        THEN Invalid("\"vm.ram\" is larger than \"image.requirements.max_ram\"")
        ELSE Valid

\* a value and the argument as the call left it
After(r, arg) == [threw |-> r.threw, v |-> r.v, arg |-> arg]

\* variant: the decoded list is not stored
StoreVolumesFrom_Not(vm, metadata, volFrom) == vm

\* metadata['docker:volumesfrom'] = volFrom, seen from vm
StoreVolumesFrom(vm, metadata, volFrom) ==
    Put(vm, "internal_metadata", Put(metadata, "docker:volumesfrom", volFrom))

\* the internal_metadata part of validateVmPayload
checkMetadata(vm) ==
    LET metadata == Get(vm, "internal_metadata")
        volFrom == Get(metadata, "docker:volumesfrom")
    IN  IF ~ToBoolean(metadata) THEN After(Valid, vm)
        ELSE IF TypeOf(metadata) # "object"
        THEN After(Invalid("\"vm.internal_metadata\" is not a hash"), vm)
        ELSE IF ~ToBoolean(volFrom) THEN After(Valid, vm)
        ELSE Bind(JSONParse(volFrom), LAMBDA parsed :
            IF ~parsed.ok
            THEN After(Invalid("\"vm.internal_metadata['docker:volumesfrom']\" is not valid JSON"), vm)
            ELSE IF ~IsArray(parsed.v)
            THEN After(Invalid("\"vm.internal_metadata['docker:volumesfrom']\" does not contain an array"), vm)
            ELSE After(Valid, StoreVolumesFrom(vm, metadata, parsed.v)))

\* validateVmPayload: its value and vm after the call
validateVmPayload(vm, requirements) ==
    Bind(validateVm(vm), LAMBDA msg :
        IF msg.threw \/ HasMsg(msg) THEN After(msg, vm)
        ELSE IF ~RegExpTest(UUID_RE, Get(vm, "vm_uuid"))
        THEN After(Invalid("\"vm.vm_uuid\" is an invalid UUID"), vm)
        ELSE Bind(checkMetadata(vm), LAMBDA meta :
            IF HasMsg(meta) THEN meta
            ELSE After(checkRequirements(meta.arg, requirements), meta.arg)))

(***************************************************************************)
(* validations.js: images, packages and defaults.                          *)
(***************************************************************************)
\* the loop of validatePlatformLimits from key i on
RECURSIVE validatePlatformsFrom(_, _, _, _)
validatePlatformsFrom(platforms, versions, path, i) ==
    IF i > Len(versions) THEN Valid
    ELSE LET version == versions[i]
             timestamp == platforms.f[version]
         IN  IF ~Matches(SDC_VERSION_RE, version)
             THEN Invalid("\"" \o path \o "\" contains an invalid SDC version")
             ELSE IF TypeOf(timestamp) # "string" \/ ~Matches(PLATFORM_RE, timestamp.s)
             THEN Invalid("\"" \o path \o "\" contains an invalid platform date")
             ELSE validatePlatformsFrom(platforms, versions, path, i + 1)

\* validatePlatformLimits, for a readable requirements
validatePlatformLimits(requirements, requirementName, prefix) ==
    LET platforms == Get(requirements, requirementName)
        path == prefix \o requirementName
    IN  IF platforms.t = "undefined" THEN Valid
        ELSE IF ~isHash(platforms) THEN Invalid("\"" \o path \o "\" is not a hash")
        ELSE validatePlatformsFrom(platforms, Keys(platforms), path, 1)

\* the properties validateImage reads the RAM limits from
MinRamName == "minRam"
MaxRamName == "maxRam"

\* the requirements part of validateImage
validateImageRequirements(requirements) ==
    LET minRam == Get(requirements, MinRamName)
        maxRam == Get(requirements, MaxRamName)
    IN  IF ~isHash(requirements)
        THEN Invalid("\"image.requirements\" has invalid type")
        ELSE
        Then(validatePlatformLimits(requirements, "min_platform", "requirements."),
        Then(validatePlatformLimits(requirements, "max_platform", "requirements."),
             IF ToBoolean(minRam) /\ TypeOf(minRam) # "number"
             THEN Invalid("\"image.requirements.min_ram\" has invalid type")
             ELSE IF ToBoolean(maxRam) /\ TypeOf(maxRam) # "number"
             THEN Invalid("\"image.requirements.max_ram\" has invalid type")
             ELSE Valid))

\* validateImage
validateImage(image) ==
    LET imgSize == Get(image, "image_size")
    IN  IF ~isHash(image) THEN Invalid("\"image\" has invalid type")
        ELSE IF ToBoolean(imgSize) /\ TypeOf(imgSize) # "number"
        THEN Invalid("\"image.image_size\" has invalid type")
        ELSE
        Then(IF ToBoolean(Get(image, "traits"))
             THEN validateTraits(Get(image, "traits")) ELSE Valid,
             IF ToBoolean(Get(image, "requirements"))
             THEN validateImageRequirements(Get(image, "requirements"))
             ELSE Valid)

\* the loop of validateImages from element i on: the message is prefixed
\* with image.uuid, a TypeError when the image is undefined or null
RECURSIVE validateImagesFrom(_, _)
validateImagesFrom(images, i) ==
    IF i > Len(images) THEN Valid
    ELSE LET image == images[i]
             msg == validateImage(image)
         IN  IF HasMsg(msg)
             THEN IF CanRead(image)
                  THEN Invalid("image uuid \"" \o JsToString(Get(image, "uuid"))
                               \o "\" - " \o msg.v.s)
                  ELSE Throws
             ELSE validateImagesFrom(images, i + 1)

\* validateImages
validateImages(images) ==
    IF ~IsArray(images) THEN Invalid("\"images\" is not an array")
    ELSE validateImagesFrom(images.elems, 1)

VALID_SPREADS == <<"min-ram", "max-ram", "random", "min-owner">>

PACKAGE_OVERPROVISION ==
    <<"overprovision_cpu", "overprovision_memory", "overprovision_storage",
      "overprovision_network", "overprovision_io">>

\* the overprovision_* checks of validatePackage, in their order
validateOverprovision(pkg) ==
    LET bad == { i \in 1 .. Len(PACKAGE_OVERPROVISION) :
                   LET val == Get(pkg, PACKAGE_OVERPROVISION[i])
                   IN  ToBoolean(val) /\ IsNaNPlus(val) }
        first == CHOOSE i \in bad : \A j \in bad : i <= j
    IN  IF bad = {} THEN Valid
        ELSE Invalid("\"package." \o PACKAGE_OVERPROVISION[first] \o "\" has invalid type")

\* variant: the decoded value is kept in a local variable only
StoreParsed_Not(pkg, name, val) == pkg

\* pkg[name] = JSON.parse(val)
StoreParsed(pkg, name, val) == Put(pkg, name, val)

\* parse(name, validator) up to the call of validator: go says whether the
\* validator is called, arg is pkg at that point
parseAttr(pkg, name) ==
    LET val == Get(pkg, name)
    IN  IF ~ToBoolean(val) THEN [go |-> FALSE, r |-> Valid, arg |-> pkg]
        ELSE IF TypeOf(val) # "string" THEN [go |-> TRUE, r |-> Valid, arg |-> pkg]
        ELSE Bind(JSONParse(val), LAMBDA parsed :
            IF ~parsed.ok
            THEN [go |-> FALSE,
                  r |-> Invalid("\"package." \o name \o "\" has invalid type"),
                  arg |-> pkg]
            ELSE [go |-> TRUE, r |-> Valid, arg |-> StoreParsed(pkg, name, parsed.v)])

\* parse(name, validatePlatformLimits)
parsePlatform(pkg, name) ==
    Bind(parseAttr(pkg, name), LAMBDA p :
        IF p.go
        THEN After(validatePlatformLimits(p.arg, name, "package."), p.arg)
        ELSE After(p.r, p.arg))

\* parse('traits', traitShim)
parseTraits(pkg) ==
    Bind(parseAttr(pkg, "traits"), LAMBDA p :
        IF p.go
        THEN After(validateTraits(Get(p.arg, "traits")), p.arg)
        ELSE After(p.r, p.arg))

\* validatePackage: its value and pkg after the call
validatePackage(pkg) ==
    LET spread == Get(pkg, "alloc_server_spread")
    IN  IF ~isHash(pkg) THEN After(Invalid("\"package\" has invalid type"), pkg)
        ELSE IF HasMsg(validateOverprovision(pkg))
        THEN After(validateOverprovision(pkg), pkg)
        ELSE IF ToBoolean(spread) /\ NotAmong(VALID_SPREADS, spread)
        THEN After(Invalid("\"alloc_server_spread\" has invalid value"), pkg)
        ELSE
        Bind(parsePlatform(pkg, "min_platform"), LAMBDA minPlatformErr :
            IF HasMsg(minPlatformErr) THEN minPlatformErr
            ELSE
        Bind(parsePlatform(minPlatformErr.arg, "max_platform"), LAMBDA maxPlatformErr :
            IF HasMsg(maxPlatformErr) THEN maxPlatformErr
            ELSE
        Bind(parseTraits(maxPlatformErr.arg), LAMBDA traitErr :
            IF HasMsg(traitErr)
            THEN After(Invalid("\"package.traits\": " \o traitErr.v.s), traitErr.arg)
            ELSE After(Valid, traitErr.arg))))

\* the loop of validatePackages from element i on: its value and the list
\* after the call; the message is prefixed with pkg.uuid, a TypeError when
\* the package is undefined or null
RECURSIVE validatePackagesFrom(_, _)
validatePackagesFrom(pkgs, i) ==
    IF i > Len(pkgs) THEN After(Valid, pkgs)
    ELSE Bind(validatePackage(pkgs[i]), LAMBDA msg :
             LET pkg == pkgs[i]
                 after == [pkgs EXCEPT ![i] = msg.arg]
             IN  IF HasMsg(msg)
                 THEN IF CanRead(pkg)
                      THEN After(Invalid("package uuid \"" \o JsToString(Get(msg.arg, "uuid"))
                                         \o "\" - " \o msg.v.s), after)
                      ELSE After(Throws, after)
                 ELSE validatePackagesFrom(after, i + 1))

\* validatePackages: its value and pkgs after the call
validatePackages(pkgs) ==
    IF ~IsArray(pkgs) THEN After(Invalid("\"packages\" is not an array"), pkgs)
    ELSE Bind(validatePackagesFrom(pkgs.elems, 1), LAMBDA r : After(r, JsArray(r.arg)))

DEFAULTS_BOOLEAN_ATTR ==
    <<"filter_headnode", "filter_min_resources", "filter_large_servers",
      "disable_override_overprovisioning">>

DEFAULTS_NUM_ATTR ==
    <<"filter_vm_limit", "overprovision_ratio_cpu", "overprovision_ratio_ram",
      "overprovision_ratio_disk", "weight_current_platform",
      "weight_next_reboot", "weight_num_owner_zones", "weight_uniform_random",
      "weight_unreserved_disk", "weight_unreserved_ram">>

\* the first loop of validateDefaults
validateDefaultsBooleans(defaults) ==
    LET bad == { i \in 1 .. Len(DEFAULTS_BOOLEAN_ATTR) :
                   LET val == Get(defaults, DEFAULTS_BOOLEAN_ATTR[i])
                   IN  TypeOf(val) # "undefined" /\ TypeOf(val) # "boolean" }
        first == CHOOSE i \in bad : \A j \in bad : i <= j
    IN  IF bad = {} THEN Valid
        ELSE Invalid("Defaults " \o DEFAULTS_BOOLEAN_ATTR[first] \o " is not boolean")

\* the second loop of validateDefaults
validateDefaultsNumbers(defaults) ==
    LET bad == { i \in 1 .. Len(DEFAULTS_NUM_ATTR) :
                   LET val == Get(defaults, DEFAULTS_NUM_ATTR[i])
                   IN  TypeOf(val) # "undefined" /\ IsNaNPlus(val) }
        first == CHOOSE i \in bad : \A j \in bad : i <= j
    IN  IF bad = {} THEN Valid
        ELSE Invalid("Defaults " \o DEFAULTS_NUM_ATTR[first] \o " is not a number")

\* the platform attributes validateDefaults tests against PLATFORM_RE
DEFAULTS_PLATFORM_ATTR ==
    <<"filter_docker_min_platform", "filter_flexible_disk_min_platform">>

\* the two platform checks of validateDefaults
validateDefaultsPlatforms(defaults) ==
    LET bad == { i \in 1 .. Len(DEFAULTS_PLATFORM_ATTR) :
                   LET val == Get(defaults, DEFAULTS_PLATFORM_ATTR[i])
                   IN  TypeOf(val) # "undefined" /\ ~RegExpTest(PLATFORM_RE, val) }
        first == CHOOSE i \in bad : \A j \in bad : i <= j
    IN  IF bad = {} THEN Valid
        ELSE Invalid("Defaults " \o DEFAULTS_PLATFORM_ATTR[first]
                     \o " is not an ISO UTC timestamp")

\* the filter_owner_server check of validateDefaults
validateOwnerServer(val) ==
    IF ~ToBoolean(val) THEN Valid
    ELSE IF ~isHash(val) THEN Invalid("Defaults filter_owner_server is an invalid type")
    ELSE IF \E key \in DOMAIN val.f : ~Matches(UUID_RE, key)
    THEN Invalid("Defaults filter_owner_server keys are not all UUIDs")
    ELSE Valid

\* validateDefaults
validateDefaults(defaults) ==
    IF ~isHash(defaults) THEN Invalid("Defaults object is an invalid type")
    ELSE
    Then(validateDefaultsBooleans(defaults),
    Then(validateDefaultsNumbers(defaults),
    Then(validateDefaultsPlatforms(defaults),
         validateOwnerServer(Get(defaults, "filter_owner_server")))))

(***************************************************************************)
(* Inputs of the validation functions: values of every JavaScript type,    *)
(* and well-formed objects with some of their attributes replaced.         *)
(***************************************************************************)
\* the longest array given to a function that validates a list
MaxListLen == 2
\* the most attributes of a well-formed object replaced at once
MaxOverrides == 2

Uuid1 == "d84f8cd6-3e8f-4434-95f1-fc50cafde9e3"
Uuid2 == "73fa296f-a9dc-4677-9c06-4c610fc57160"
NotUuid == "73FA296F-A9DC-4677-9C06-4C610FC57160"
Platform1 == "20121117T221253Z"
NotPlatform == "2012-11-17T22:12:53Z"

\* { name: x }
Single(name, x) == JsObject([n \in {name} |-> x])

\* obj with the attributes of overrides, a set of <<name, value>> pairs
\* with different names, set to their values
RECURSIVE Override(_, _)
Override(obj, overrides) ==
    IF overrides = {} THEN obj
    ELSE LET o == CHOOSE x \in overrides : TRUE
         IN  Override(Put(obj, o[1], o[2]), overrides \ {o})

\* the subsets of S with at most k elements
RECURSIVE SubsetsUpTo(_, _)
SubsetsUpTo(S, k) ==
    IF k = 0 THEN {{}}
    ELSE LET smaller == SubsetsUpTo(S, k - 1)
         IN  smaller \cup { P \cup {x} : P \in smaller, x \in S }

\* obj with at most MaxOverrides of the overrides applied, no attribute twice
Variants(obj, overrides) ==
    { Override(obj, O) :
        O \in { P \in SubsetsUpTo(overrides, MaxOverrides) :
                  \A x, y \in P : x[1] = y[1] => x = y } }

\* the arrays of at most MaxListLen elements of S
ArraysOf(S) ==
    { JsArray(elems) : elems \in UNION { [1 .. n -> S] : n \in 0 .. MaxListLen } }

\* a value of each type that is not an array
NotArrays ==
    {JsUndefined, JsNull, JsBoolean(TRUE), JsDecimal(500), JsText("x"), EmptyObject}

\* values that are not hashes
NotHashes ==
    {JsUndefined, JsNull, JsBoolean(TRUE), JsDecimal(500), JsText("x"), JsArray(<< >>)}

GoodServer ==
    JsObject([n \in {"uuid", "vms"} |->
                IF n = "uuid" THEN JsText(Uuid1) ELSE EmptyObject])

ServerArrays ==
    ArraysOf({JsUndefined, JsNull, JsDecimal(500), JsText("x"), EmptyObject, GoodServer})

GoodTicket ==
    JsObject([n \in {"id", "server_uuid", "scope", "action", "status"} |->
                CASE n = "id" -> JsText(Uuid1)
                  [] n = "server_uuid" -> JsText(Uuid2)
                  [] n = "scope" -> JsText("vm")
                  [] n = "action" -> JsText("provision")
                  [] n = "status" -> JsText("active")])

TicketInputs ==
    NotHashes \cup
    { Put(GoodTicket, name, x) :
        name \in {"id", "server_uuid", "scope", "action", "status"},
        x \in {JsText(Uuid1), JsText(NotUuid), JsDecimal(500)} }

GoodAffinity ==
    JsObject([n \in {"key", "operator", "value", "valueType", "isSoft"} |->
                CASE n = "key" -> JsText("instance")
                  [] n = "operator" -> JsText("==")
                  [] n = "value" -> JsText("webhead*")
                  [] n = "valueType" -> JsText("glob")
                  [] n = "isSoft" -> JsBoolean(FALSE)])

AffinityElements ==
    {JsUndefined, JsNull, JsDecimal(500), JsText("x"), GoodAffinity,
     Put(GoodAffinity, "key", JsUndefined),
     Put(GoodAffinity, "operator", JsText("!=")),
     Put(GoodAffinity, "operator", JsText("=")),
     Put(GoodAffinity, "valueType", JsText("regex")),
     Put(GoodAffinity, "valueType", JsDecimal(100)),
     Put(GoodAffinity, "isSoft", JsText("false"))}

AffinityInputs == NotArrays \cup ArraysOf(AffinityElements)

LocalityInputs ==
    NotHashes \cup
    { JsObject([n \in {"near", "far", "strict"} |->
                  CASE n = "near" -> near [] n = "far" -> far [] n = "strict" -> strict]) :
        near \in {JsUndefined, JsText(Uuid1), JsText(NotUuid), JsDecimal(500),
                  JsArray(<<JsText(Uuid1), JsText(Uuid2)>>),
                  JsArray(<<JsText(Uuid1), JsNull>>)},
        far \in {JsUndefined, JsText(Uuid2), JsText(NotUuid), JsArray(<<JsText(Uuid2)>>)},
        strict \in {JsUndefined, JsBoolean(TRUE), JsText("true")} }

\* the simplest example of the documentation
GoodVm ==
    JsObject([n \in {"vm_uuid", "ram", "owner_uuid"} |->
                CASE n = "vm_uuid" -> JsText(Uuid1)
                  [] n = "ram" -> JsDecimal(204800)
                  [] n = "owner_uuid" -> JsText(Uuid2)])

\* '["<uuid>"]'
VolumesFromText == "[\"" \o Uuid1 \o "\"]"

VmOverrides ==
    {<<"owner_uuid", JsText(NotUuid)>>, <<"owner_uuid", JsUndefined>>,
     <<"ram", JsText("2048")>>, <<"ram", JsDecimal(6400)>>,
     <<"quota", JsText("10240")>>, <<"quota", JsDecimal(1024000)>>,
     <<"cpu_cap", JsBoolean(TRUE)>>, <<"cpu_cap", JsDecimal(10000)>>,
     <<"traits", Single("ssd", JsBoolean(TRUE))>>,
     <<"traits", Single("ssd", JsDecimal(100))>>,
     <<"affinity", JsArray(<<GoodAffinity>>)>>,
     <<"affinity", JsArray(<<JsNull>>)>>,
     <<"affinity", JsText("instance==webhead*")>>,
     <<"locality", Single("near", JsText(Uuid1))>>,
     <<"locality", Single("near", JsText(NotUuid))>>,
     <<"nic_tags", JsArray(<<JsText("external")>>)>>,
     <<"nic_tags", JsArray(<<JsDecimal(500)>>)>>,
     <<"vm_uuid", JsText(NotUuid)>>,
     <<"internal_metadata", JsText("x")>>,
     <<"internal_metadata", EmptyObject>>,
     <<"internal_metadata", Single("docker:volumesfrom", JsText(VolumesFromText))>>,
     <<"internal_metadata", Single("docker:volumesfrom", JsText("[]"))>>,
     <<"internal_metadata", Single("docker:volumesfrom", JsText(Uuid1))>>,
     <<"internal_metadata", Single("docker:volumesfrom", JsText("{}"))>>,
     <<"internal_metadata", Single("docker:volumesfrom", JsArray(<<JsText(Uuid1)>>))>>}

VmInputs == NotHashes \cup Variants(GoodVm, VmOverrides)

\* image requirements: RAM limits in MiB, 0 among them
RamLimits == {JsUndefined, JsDecimal(0), JsDecimal(51200), JsDecimal(102400)}

RamRequirements ==
    { JsObject([n \in {"min_ram", "max_ram"} |-> IF n = "min_ram" THEN min ELSE max]) :
        min \in RamLimits, max \in RamLimits }

\* RAM sizes at and next to the limits
RamSizes ==
    { JsDecimal(h) : h \in {-100, 0, 1, 2, 100, 51198, 51199, 51200,
                            102400, 102401, 102402} }

\* the arguments of validateVmPayload: any vm with or without limits that
\* its ram breaks, and every RAM size against every pair of limits
VmPayloadInputs ==
    { <<vm, requirements>> :
        vm \in VmInputs,
        requirements \in {JsUndefined, Single("min_ram", JsDecimal(1024000))} }
    \cup
    { <<Put(GoodVm, "ram", ram), requirements>> :
        ram \in RamSizes, requirements \in RamRequirements }

PlatformMap(version, timestamp) == Single(version, timestamp)

\* the valid manifest of the documentation, with one SDC version
GoodImage ==
    JsObject([n \in {"uuid", "image_size", "traits", "requirements"} |->
                CASE n = "uuid" -> JsText(Uuid1)
                  [] n = "image_size" -> JsDecimal(1024000)
                  [] n = "traits" -> Single("ssd", JsBoolean(TRUE))
                  [] n = "requirements" ->
                       Put(Single("min_ram", JsDecimal(102400)), "min_platform",
                           PlatformMap("7.0", JsText(Platform1)))])

ImageOverrides ==
    {<<"image_size", JsText("10240")>>,
     <<"traits", Single("ssd", JsNull)>>,
     <<"requirements", JsDecimal(500)>>,
     <<"requirements", EmptyObject>>,
     <<"requirements", Single("min_ram", JsText("1024"))>>,
     <<"requirements", Single("max_ram", JsText("1024"))>>,
     <<"requirements", Single("max_ram", Single("mib", JsDecimal(102400)))>>,
     <<"requirements", Single("minRam", JsText("1024"))>>,
     <<"requirements", Single("maxRam", JsText("1024"))>>,
     <<"requirements", Single("min_platform", JsText(Platform1))>>,
     <<"requirements", Single("min_platform", PlatformMap("7", JsText(Platform1)))>>,
     <<"requirements", Single("min_platform", PlatformMap("7.0", JsText(NotPlatform)))>>,
     <<"requirements", Single("max_platform", PlatformMap("7.0", JsText(Platform1)))>>,
     <<"requirements", Single("max_platform", PlatformMap("7.0", JsDecimal(2012)))>>}

ImageInputs == NotHashes \cup Variants(GoodImage, ImageOverrides)

ImageElements ==
    {JsUndefined, JsNull, JsDecimal(500), GoodImage} \cup
    { Put(GoodImage, o[1], o[2]) : o \in ImageOverrides }

GoodPackage ==
    JsObject([n \in {"uuid", "max_physical_memory", "overprovision_cpu"} |->
                CASE n = "uuid" -> JsText(Uuid2)
                  [] n = "max_physical_memory" -> JsDecimal(204800)
                  [] n = "overprovision_cpu" -> JsDecimal(150)])

\* '{"7.0":"20121117T221253Z"}'
PlatformMapText == "{\"7.0\":\"" \o Platform1 \o "\"}"

PackageOverrides ==
    {<<"overprovision_cpu", JsText("1.5")>>,
     <<"overprovision_cpu", JsText("lots")>>,
     <<"overprovision_io", EmptyObject>>,
     <<"alloc_server_spread", JsText("min-owner")>>,
     <<"alloc_server_spread", JsText("max-owner")>>,
     <<"min_platform", PlatformMap("7.0", JsText(Platform1))>>,
     <<"min_platform", JsText(PlatformMapText)>>,
     <<"min_platform", JsText("7.0")>>,
     <<"min_platform", JsText("null")>>,
     <<"min_platform", JsText(Platform1)>>,
     <<"max_platform", JsText(PlatformMapText)>>,
     <<"max_platform", JsText("{\"7.0\":2012}")>>,
     <<"max_platform", JsDecimal(500)>>,
     <<"traits", Single("ssd", JsBoolean(TRUE))>>,
     <<"traits", JsText("{\"ssd\":true}")>>,
     <<"traits", JsText("{\"ssd\":1}")>>,
     <<"traits", JsText("ssd")>>}

PackageInputs == NotHashes \cup Variants(GoodPackage, PackageOverrides)

PackageElements ==
    {JsUndefined, JsNull, JsDecimal(500), GoodPackage} \cup
    { Put(GoodPackage, o[1], o[2]) : o \in PackageOverrides }

\* values of every type for an attribute of the defaults
AnyValues ==
    {JsNull, JsBoolean(TRUE), JsDecimal(22400), JsText("many"),
     JsText(Platform1), Single(Uuid1, JsText(Uuid2))}

\* one attribute of each kind validateDefaults knows, the other platform
\* attributes of the documentation, and attributes it does not list
DefaultsAttributes ==
    {"filter_headnode", "filter_vm_limit",
     "filter_docker_min_platform", "filter_flexible_disk_min_platform",
     "filter_docker_nfs_volumes_automount_min_platform",
     "filter_non_docker_nfs_volumes_automount_min_platform",
     "filter_owner_server", "unknown_key"}

DefaultsInputs ==
    NotHashes \cup
    Variants(EmptyObject, { <<name, x>> : name \in DefaultsAttributes, x \in AnyValues })

(***************************************************************************)
(* Single calls of the validation functions.                               *)
(***************************************************************************)
\* a call of a validation function: its arguments, what it returned or
\* that it threw, and the arguments as they are after the call
Validated(op, args, r, after) ==
    [op |-> op, at |-> now, servers |-> << >>, before |-> state,
     posted |-> posted, ret |-> r.v, threw |-> r.threw,
     args |-> args, after |-> after]

\* a call of a function that assigns to nothing
CallValidator(op, arg, r) ==
    /\ call.op = "none"
    /\ call' = Validated(op, <<arg>>, r, <<arg>>)
    /\ UNCHANGED <<now, state, posted, chosen, pipe>>

CallValidateServers(servers) ==
    CallValidator("validateServers", servers, validateServers(servers))

CallValidateTicket(ticket) ==
    CallValidator("validateTicket", ticket, validateTicket(ticket))

CallValidateTickets(tickets) ==
    CallValidator("validateTickets", tickets, validateTickets(tickets))

CallValidateAffinity(affinities) ==
    CallValidator("validateAffinity", affinities, validateAffinity(affinities))

CallValidateLocality(locality) ==
    CallValidator("validateLocality", locality, validateLocality(locality))

CallValidateVm(vm) ==
    CallValidator("validateVm", vm, validateVm(vm))

CallValidateImage(image) ==
    CallValidator("validateImage", image, validateImage(image))

CallValidateImages(images) ==
    CallValidator("validateImages", images, validateImages(images))

CallValidateDefaults(defaults) ==
    CallValidator("validateDefaults", defaults, validateDefaults(defaults))

CallValidateVmPayload(vm, requirements) ==
    /\ call.op = "none"
    /\ LET r == validateVmPayload(vm, requirements)
       IN  call' = Validated("validateVmPayload", <<vm, requirements>>, r,
                             <<r.arg, requirements>>)
    /\ UNCHANGED <<now, state, posted, chosen, pipe>>

\* validateVmPayload called once more on the objects of the call before
CallValidateVmPayloadAgain ==
    /\ call.op = "validateVmPayload"
    /\ "first" \notin DOMAIN call
    /\ LET r == validateVmPayload(call.after[1], call.after[2])
       IN  call' = [Validated("validateVmPayload", call.after, r,
                              <<r.arg, call.after[2]>>)
                    EXCEPT !.before = call.before]
                   @@ [first |-> [threw |-> call.threw, v |-> call.ret]]
    /\ UNCHANGED <<now, state, posted, chosen, pipe>>

CallValidatePackage(pkg) ==
    /\ call.op = "none"
    /\ LET r == validatePackage(pkg)
       IN  call' = Validated("validatePackage", <<pkg>>, r, <<r.arg>>)
    /\ UNCHANGED <<now, state, posted, chosen, pipe>>

CallValidatePackages(pkgs) ==
    /\ call.op = "none"
    /\ LET r == validatePackages(pkgs)
       IN  call' = Validated("validatePackages", <<pkgs>>, r, <<r.arg>>)
    /\ UNCHANGED <<now, state, posted, chosen, pipe>>

NextValidate ==
    \/ \E servers \in NotArrays \cup ServerArrays : CallValidateServers(servers)
    \/ \E ticket \in TicketInputs : CallValidateTicket(ticket)
    \/ \E tickets \in NotArrays \cup ArraysOf(TicketInputs) : CallValidateTickets(tickets)
    \/ \E affinities \in AffinityInputs : CallValidateAffinity(affinities)
    \/ \E locality \in LocalityInputs : CallValidateLocality(locality)
    \/ \E vm \in VmInputs : CallValidateVm(vm)
    \/ \E args \in VmPayloadInputs : CallValidateVmPayload(args[1], args[2])
    \/ CallValidateVmPayloadAgain
    \/ \E image \in ImageInputs : CallValidateImage(image)
    \/ \E images \in NotArrays \cup ArraysOf(ImageElements) : CallValidateImages(images)
    \/ \E pkg \in PackageInputs : CallValidatePackage(pkg)
    \/ \E pkgs \in NotArrays \cup ArraysOf(PackageElements) : CallValidatePackages(pkgs)
    \/ \E defaults \in DefaultsInputs : CallValidateDefaults(defaults)

SpecValidate == Init /\ [][NextValidate]_vars

(***************************************************************************)
(* What the validators return and what they leave of their arguments.      *)
(***************************************************************************)
ValidatorNames ==
    {"validateServers", "validateTicket", "validateTickets", "validateAffinity",
     "validateLocality", "validateVm", "validateVmPayload", "validateImage",
     "validateImages", "validatePackage", "validatePackages", "validateDefaults"}

IsValidation == call.op \in ValidatorNames

\* C12: every validation function is total: on every input, lists with null
\* elements included, it returns null or a message and raises no exception.
C12_Original == IsValidation => ~call.threw

\* C13: validation functions are pure: no field of an argument is replaced
\* or re-typed by validating it.
C13_Original == IsValidation => call.after = call.args

\* the attributes validatePackage decodes
DecodedNames == {"min_platform", "max_platform", "traits"}

\* new is old, or old is JSON text and new the value it denotes
DecodedOrSame(old, new) ==
    new = old \/ (old.t = "string" /\ JSONParse(old).ok /\ new = JSONParse(old).v)

\* after is before but for its properties names, which are the same or
\* decoded
SameButDecoded(before, after, names) ==
    \/ after = before
    \/ /\ before.t = "object" /\ after.t = "object"
       /\ DOMAIN after.f = DOMAIN before.f
       /\ \A n \in DOMAIN before.f :
            IF n \in names THEN DecodedOrSame(before.f[n], after.f[n])
            ELSE after.f[n] = before.f[n]

\* after is before but for its property name
SameBut(before, after, name) ==
    \/ after = before
    \/ /\ before.t = "object" /\ after.t = "object"
       /\ DOMAIN after.f = DOMAIN before.f
       /\ \A n \in DOMAIN before.f \ {name} : after.f[n] = before.f[n]

VolumesFromOf(vm) == Get(Get(vm, "internal_metadata"), "docker:volumesfrom")

\* C13 (amended): a validator leaves its arguments as they were, except that
\* validateVmPayload replaces vm.internal_metadata['docker:volumesfrom'] by
\* the list its JSON text denotes, which it does whenever it accepts a vm
\* that has one, and validatePackage(s) replaces a package's min_platform,
\* max_platform and traits given as JSON text by the values decoded.
C13_OnlyDecodedFieldsChange ==
    /\ IsValidation /\ call.op \notin {"validateVmPayload", "validatePackage",
                                       "validatePackages"}
         => call.after = call.args
    /\ call.op = "validateVmPayload" =>
         /\ call.after[2] = call.args[2]
         /\ SameBut(call.args[1], call.after[1], "internal_metadata")
         /\ SameButDecoded(Get(call.args[1], "internal_metadata"),
                           Get(call.after[1], "internal_metadata"),
                           {"docker:volumesfrom"})
         /\ ~call.threw /\ call.ret = JsNull /\ ToBoolean(VolumesFromOf(call.args[1]))
              => IsArray(VolumesFromOf(call.after[1]))
    /\ call.op = "validatePackage" =>
         SameButDecoded(call.args[1], call.after[1], DecodedNames)
    /\ call.op = "validatePackages" =>
         \/ call.after = call.args
         \/ /\ IsArray(call.args[1]) /\ IsArray(call.after[1])
            /\ Len(call.after[1].elems) = Len(call.args[1].elems)
            /\ \A i \in 1 .. Len(call.args[1].elems) :
                 SameButDecoded(call.args[1].elems[i], call.after[1].elems[i],
                                DecodedNames)

\* a vm whose volumes-from text was replaced by a list although the call
\* returned an error, and a package whose min_platform text was decoded
C13_Witness ==
    \/ /\ call.op = "validateVmPayload"
       /\ call.ret # JsNull
       /\ VolumesFromOf(call.args[1]).t = "string"
       /\ IsArray(VolumesFromOf(call.after[1]))
    \/ /\ call.op = "validatePackage"
       /\ Get(call.args[1], "min_platform").t = "string"
       /\ Get(call.after[1], "min_platform").t = "object"

\* the vm passes every check of validateVmPayload but those on its ram
\* against the requirements
OtherwiseValid(vm) ==
    /\ ~validateVm(vm).threw /\ ~HasMsg(validateVm(vm))
    /\ RegExpTest(UUID_RE, Get(vm, "vm_uuid"))
    /\ ~HasMsg(checkMetadata(vm))

Present(v) == v.t # "undefined"

RamErrors ==
    {Invalid("\"vm.ram\" is smaller than \"image.requirements.min_ram\"").v,
     Invalid("\"vm.ram\" is larger than \"image.requirements.max_ram\"").v}

\* C14: for an otherwise valid vm, validateVmPayload returns a RAM error
\* exactly when min_ram is present and vm.ram < min_ram - 0.01 or max_ram is
\* present and vm.ram > max_ram + 0.01.
C14_Original ==
    call.op = "validateVmPayload" /\ OtherwiseValid(call.args[1]) =>
        LET ram == Get(call.args[1], "ram")
            minRam == Get(call.args[2], "min_ram")
            maxRam == Get(call.args[2], "max_ram")
        IN  call.ret \in RamErrors <=>
                \/ Present(minRam) /\ ram.h < minRam.h - SAFETY_DELTA
                \/ Present(maxRam) /\ ram.h > maxRam.h + SAFETY_DELTA

\* the four min_platform attributes of the defaults table
MIN_PLATFORM_ATTR ==
    {"filter_docker_min_platform", "filter_flexible_disk_min_platform",
     "filter_docker_nfs_volumes_automount_min_platform",
     "filter_non_docker_nfs_volumes_automount_min_platform"}

InSeq(names, name) == \E i \in 1 .. Len(names) : names[i] = name

IsRecognised(name) ==
    \/ InSeq(DEFAULTS_BOOLEAN_ATTR, name)
    \/ InSeq(DEFAULTS_NUM_ATTR, name)
    \/ name \in MIN_PLATFORM_ATTR

\* the value has the type the defaults table gives the attribute
WellTyped(name, v) ==
    IF InSeq(DEFAULTS_BOOLEAN_ATTR, name) THEN v.t = "boolean"
    ELSE IF InSeq(DEFAULTS_NUM_ATTR, name) THEN v.t = "number" /\ ~v.nan
    ELSE v.t = "string" /\ Matches(PLATFORM_RE, v.s)

\* some recognised attribute of defaults is defined and of the wrong type
BadlyTyped(defaults) ==
    \E name \in DOMAIN defaults.f :
        /\ IsRecognised(name)
        /\ Present(defaults.f[name])
        /\ ~WellTyped(name, defaults.f[name])

\* C15: validateDefaults returns an error whenever a boolean, numeric or
\* min_platform attribute (any of the four) is defined with the wrong type,
\* and null when all of them are well typed, whatever other keys there are.
C15_Original ==
    call.op = "validateDefaults" /\ isHash(call.args[1]) =>
        /\ BadlyTyped(call.args[1]) => call.ret.t = "string"
        /\ (~BadlyTyped(call.args[1])
             /\ ~HasMsg(validateOwnerServer(Get(call.args[1], "filter_owner_server"))))
             => call.ret = JsNull

\* C16: validateServers returns an error only when its input is not an
\* array or is an empty array, and null for every non-empty array whatever
\* its elements are.
C16_OnlyArrayShapeIsChecked ==
    call.op = "validateServers" =>
        /\ ~call.threw
        /\ call.ret \in {JsNull, JsText("\"servers\" input is not an array"),
                         JsText("\"servers\" array is empty")}
        /\ call.ret = JsNull <=>
             IsArray(call.args[1]) /\ Len(call.args[1].elems) > 0

\* a list holding null and a number was accepted
C16_Witness ==
    /\ call.op = "validateServers"
    /\ call.ret = JsNull
    /\ IsArray(call.args[1])
    /\ \E i, j \in 1 .. Len(call.args[1].elems) :
         call.args[1].elems[i] = JsNull /\ call.args[1].elems[j].t = "number"

\* the image is valid but perhaps for the RAM limits of its requirements
RamLimitsApart(image) ==
    /\ isHash(Get(image, "requirements"))
    /\ DOMAIN Get(image, "requirements").f \subseteq {"min_ram", "max_ram"}
    /\ ~HasMsg(validateImage(Put(image, "requirements", EmptyObject)))

\* C17: validateImage rejects an image whose requirements.min_ram or
\* requirements.max_ram is present and is not a number, with the message
\* '"image.requirements.min_ram" has invalid type' (or max_ram) when nothing
\* else is wrong with the image.
C17_Original ==
    call.op = "validateImage" /\ isHash(call.args[1]) =>
        LET requirements == Get(call.args[1], "requirements")
            minRam == Get(requirements, "min_ram")
            maxRam == Get(requirements, "max_ram")
        IN  /\ Present(minRam) /\ minRam.t # "number" =>
                 /\ call.ret.t = "string"
                 /\ RamLimitsApart(call.args[1]) => call.ret =
                      JsText("\"image.requirements.min_ram\" has invalid type")
            /\ Present(maxRam) /\ maxRam.t # "number" /\ ~Present(minRam) =>
                 /\ call.ret.t = "string"
                 /\ RamLimitsApart(call.args[1]) => call.ret =
                      JsText("\"image.requirements.max_ram\" has invalid type")

(***************************************************************************)
(* Which recent candidates the soft filter removes.                        *)
(***************************************************************************)
\* the recent candidates of the last run that are in its output
KeptRecent == RecentCandidates \ Removed

StampOf(uuid) == call.before.recent_servers[uuid]

\* C18: when more candidates are recent than the 25% cap allows, the most
\* recently used are removed first: every removed server has a timestamp
\* greater than or equal to that of every recent candidate that is kept.
C18_MostRecentRemovedFirst ==
    IsRun => \A r \in Removed, k \in KeptRecent : StampOf(r) >= StampOf(k)

\* a run that removed a server and kept a recent candidate used before it
C18_Witness ==
    /\ IsRun
    /\ \E r \in Removed, k \in KeptRecent : StampOf(r) > StampOf(k)
    /\ \E r \in Removed, k \in KeptRecent : StampOf(r) = StampOf(k)

\* C19: the soft filter only removes recently used servers: every server in
\* the input of run but not in its output has an entry at most 5000 ms old
\* at the time of the run; a candidate never selected, or selected more than
\* 5000 ms ago, survives.
C19_OnlyRecentRemoved ==
    IsRun => /\ Removed \subseteq RecentCandidates
             /\ \A uuid \in Uuids(call.servers) :
                  ~WasRecent(uuid) => uuid \in Uuids(call.ret)

\* a run that removed a server selected exactly 5000 ms before and kept one
\* selected 10000 ms before and one never selected
C19_Witness ==
    /\ IsRun
    /\ \E r \in Removed : call.at - StampOf(r) = 5000
    /\ \E k \in Uuids(call.ret) \cap DOMAIN call.before.recent_servers :
         call.at - StampOf(k) > 5000
    /\ \E k \in Uuids(call.ret) : k \notin DOMAIN call.before.recent_servers

(***************************************************************************)
(* The reasons hard-filter-vm-count returns.                               *)
(***************************************************************************)
\* the servers of the last call that are not in the list returned
RemovedByVmCount == Uuids(call.servers) \ Uuids(call.ret[1])

\* C20: with capacity mode off and a limit in force, the reasons map has
\* exactly the uuids of the removed servers as keys; with capacity mode on
\* the reasons are null; without a limit in force no reasons are returned.
C20_ReasonsForRemoved ==
    IsVmCount =>
        LET limit == ToNumber(LimitGiven)
        IN  IF limit.nan \/ limit.v = 0
            THEN Len(call.ret) = 1
            ELSE /\ Len(call.ret) = 2
                 /\ call.constraints.capacity => call.ret[2].isNull
                 /\ ~call.constraints.capacity =>
                      /\ ~call.ret[2].isNull
                      /\ DOMAIN call.ret[2].map = RemovedByVmCount

\* a call outside capacity mode with limit 2 that removed two servers of
\* three and returned a reason for each of the two
C20_Witness ==
    /\ IsVmCount
    /\ ~call.constraints.capacity
    /\ LimitGiven = JsNumber(2)
    /\ Len(call.servers) = 3
    /\ Cardinality(RemovedByVmCount) = 2
    /\ Cardinality(DOMAIN call.ret[2].map) = 2

(***************************************************************************)
(* post, and the state the stages share.                                   *)
(***************************************************************************)
IsPost == call.op = "post"

\* C21: post can be fired with the chosen server after any evaluation, also
\* on a state the soft filter's run never saw: it records the server in
\* recent_servers and raises no error.
C21_Original ==
    IsPost =>
        /\ ~call.threw
        /\ state.has_recent_servers
        /\ call.servers[1].uuid \in DOMAIN state.recent_servers
        /\ state.recent_servers[call.servers[1].uuid] = call.at

\* the state with its recent-server map lost
Erased(st) == [st EXCEPT !.recent_servers = EmptyMap]

\* C22: losing the recent-server map only adds candidates: run on the same
\* list with recent_servers erased returns the whole list, a superset of
\* what run returned with the map intact.
C22_LossOnlyAddsCandidates ==
    IsRun =>
        /\ filterRecentServers(Erased(call.before), call.servers, call.at)
             = {call.servers}
        /\ filterRecentServers(Undefined, call.servers, call.at) = {call.servers}
        /\ Uuids(call.ret) \subseteq Uuids(call.servers)
        /\ IsSubsequence(call.ret, call.servers)

\* a run that removed servers which the run with the map erased returns
C22_Witness ==
    /\ IsRun
    /\ Cardinality(Removed) = 2
    /\ \A ret \in filterRecentServers(Erased(call.before), call.servers, call.at) :
         Removed \subseteq Uuids(ret)

\* hard-filter-vm-count run at any time on the state the soft filter uses
RunVmCount(servers, constraints) ==
    /\ call' = [op |-> "vmcount", at |-> now, servers |-> servers,
                before |-> state, posted |-> posted,
                ret |-> filterVmCount(servers, constraints), threw |-> FALSE,
                constraints |-> constraints]
    /\ UNCHANGED <<now, state, posted, chosen, pipe>>

\* the lists hard-filter-vm-count is given: the servers allocations land
\* on, or these and one more
StageLists == { ServerList(Ascending(1 .. n)) : n \in MaxChosen .. (MaxChosen + 1) }

\* any sequence of calls of the two stages
NextStages ==
    \/ Tick
    \/ \E servers \in CandidateLists : Run(servers)
    \/ \E u \in Pool : Post(ServerOf(u))
    \/ \E servers \in StageLists, constraints \in PipeConstraints :
          RunVmCount(servers, constraints)

SpecStages == Init /\ [][NextStages]_vars

\* every server of list out is a server of list in, as it was
ServersOf(out, in) == \A i \in 1 .. Len(out) : InList(in, out[i])

\* map after is map before with some entries deleted
OnlyDeleted(before, after) ==
    /\ DOMAIN after \subseteq DOMAIN before
    /\ \A uuid \in DOMAIN after : after[uuid] = before[uuid]

\* map after is map before but perhaps for the entry of uuid
SameButFor(before, after, uuid) ==
    /\ DOMAIN after \ {uuid} = DOMAIN before \ {uuid}
    /\ \A u \in DOMAIN before \ {uuid} : after[u] = before[u]

\* C23: stages mutate only their own state slot and never the servers:
\* hard-filter-vm-count leaves the state unchanged and returns servers of its
\* input as they were; run of the soft filter only deletes entries of
\* state.recent_servers, post only writes the entry of the posted server,
\* and the servers run returns are servers of its input as they were.
C23_OnlyOwnSlotChanges ==
    [][ /\ call'.op = "vmcount" =>
              /\ state' = state
              /\ ServersOf(call'.ret[1], call'.servers)
        /\ call'.op = "run" =>
              /\ OnlyDeleted(state.recent_servers, state'.recent_servers)
              /\ ServersOf(call'.ret, call'.servers)
        /\ call'.op = "post" =>
              SameButFor(state.recent_servers, state'.recent_servers,
                         call'.servers[1].uuid)
      ]_vars

\* hard-filter-vm-count removed a server while recent_servers held entries,
\* which it left alone
C23_Witness ==
    /\ IsVmCount
    /\ Cardinality(DOMAIN state.recent_servers) = 2
    /\ Len(call.ret[1]) < Len(call.servers)
    /\ state = call.before

(***************************************************************************)
(* The order in which a vm is checked.                                     *)
(***************************************************************************)
\* what check k of a vm gives by itself, in the order object type,
\* owner_uuid, ram, quota, cpu_cap, traits, affinity, locality, nic_tags,
\* vm_uuid, internal_metadata, image RAM range
VmCheck(vm, requirements, k) ==
    CASE k = 1 -> IF isHash(vm) THEN Valid
                  ELSE Invalid("VM object is an invalid type")
      [] k = 2 -> IF RegExpTest(UUID_RE, Get(vm, "owner_uuid")) THEN Valid
                  ELSE Invalid("VM \"owner_uuid\" is not a valid UUID")
      [] k = 3 -> IF TypeOf(Get(vm, "ram")) = "number" THEN Valid
                  ELSE Invalid("VM \"ram\" is not a number")
      [] k = 4 -> IF ToBoolean(Get(vm, "quota")) /\ TypeOf(Get(vm, "quota")) # "number"
                  THEN Invalid("VM \"quota\" is not a number") ELSE Valid
      [] k = 5 -> IF ToBoolean(Get(vm, "cpu_cap")) /\ TypeOf(Get(vm, "cpu_cap")) # "number"
                  THEN Invalid("VM \"cpu_cap\" is not a number") ELSE Valid
      [] k = 6 -> IF ToBoolean(Get(vm, "traits"))
                  THEN VmPart(validateTraits(Get(vm, "traits"))) ELSE Valid
      [] k = 7 -> IF ToBoolean(Get(vm, "affinity"))
                  THEN VmPart(validateAffinity(Get(vm, "affinity"))) ELSE Valid
      [] k = 8 -> IF ToBoolean(Get(vm, "locality"))
                  THEN VmPart(validateLocality(Get(vm, "locality"))) ELSE Valid
      [] k = 9 -> validateNicTags(Get(vm, "nic_tags"))
      [] k = 10 -> IF RegExpTest(UUID_RE, Get(vm, "vm_uuid")) THEN Valid
                   ELSE Invalid("\"vm.vm_uuid\" is an invalid UUID")
      [] k = 11 -> [threw |-> FALSE, v |-> checkMetadata(vm).v]
      [] k = 12 -> checkRequirements(vm, requirements)

\* the first of the checks k .. n that fails, Valid when none does; a check
\* is made only when those before it passed
RECURSIVE FirstFailure(_, _, _, _)
FirstFailure(vm, requirements, k, n) ==
    IF k > n THEN Valid
    ELSE IF VmCheck(vm, requirements, k) # Valid THEN VmCheck(vm, requirements, k)
    ELSE FirstFailure(vm, requirements, k + 1, n)

\* the checks that fail on a vm which is an object with a numeric ram
FailedChecks(vm, requirements) ==
    { k \in 1 .. 12 : VmCheck(vm, requirements, k) # Valid }

\* the call gave r
Gave(r) == call.threw = r.threw /\ call.ret = r.v

\* C24: validateVm returns the message of the first failing check in the
\* order object type, owner_uuid, ram, quota, cpu_cap, traits, affinity,
\* locality, nic_tags; validateVmPayload returns a validateVm error first,
\* then checks vm_uuid, internal_metadata and the image RAM range.
C24_FirstInvalidInOrder ==
    /\ call.op = "validateVm" =>
         Gave(FirstFailure(call.args[1], JsUndefined, 1, 9))
    /\ call.op = "validateVmPayload" =>
         Gave(FirstFailure(call.args[1], call.args[2], 1, 12))

\* a payload with faulty traits and faulty nic_tags, or one with a faulty
\* vm_uuid and ram below the image's min_ram
C24_Witness ==
    /\ call.op = "validateVmPayload"
    /\ isHash(call.args[1])
    /\ TypeOf(Get(call.args[1], "ram")) = "number"
    /\ FailedChecks(call.args[1], call.args[2]) \in {{6, 9}, {10, 12}}

(***************************************************************************)
(* Validating the same vm twice.                                           *)
(***************************************************************************)
IsSecondPayloadCall == call.op = "validateVmPayload" /\ "first" \in DOMAIN call

\* C25: validating a VM payload is idempotent: a second call of
\* validateVmPayload on the same vm object returns what the first returned,
\* also for a vm whose docker:volumesfrom holds a JSON-encoded UUID list.
C25_Original == IsSecondPayloadCall => Gave(call.first)

(***************************************************************************)
(* run and post of overlapping allocations on one state.                   *)
(***************************************************************************)
\* the entries of the map that are at most MAX_AGE old at time t
NotOlderThanMaxAge(map, t) == { uuid \in DOMAIN map : t - map[uuid] <= 5000 }

\* C26: under any interleaving of run and post on one state, a run deletes
\* exactly the entries strictly older than 5000 ms, whether or not their
\* servers are candidates, and keeps the others as they are; a post sets the
\* one entry of the posted server to the time of the post and leaves the
\* others; nothing else changes an entry.
C26_PurgeByAgeOnly ==
    [][ /\ call'.op = "run" =>
              /\ DOMAIN state'.recent_servers =
                    NotOlderThanMaxAge(state.recent_servers, now)
              /\ \A uuid \in DOMAIN state'.recent_servers :
                    state'.recent_servers[uuid] = state.recent_servers[uuid]
        /\ call'.op = "post" /\ ~call'.threw =>
              /\ state'.recent_servers[call'.servers[1].uuid] = now
              /\ SameButFor(state.recent_servers, state'.recent_servers,
                            call'.servers[1].uuid)
        /\ call'.op \notin {"run", "post"} \/ call'.threw => state' = state
      ]_vars

\* a run following a post of another allocation that deleted the expired
\* entry of a server not among its candidates and kept an entry exactly
\* 5000 ms old
C26_Witness ==
    /\ IsRun
    /\ call.posted # {}
    /\ \E uuid \in DOMAIN call.before.recent_servers \ Uuids(call.servers) :
          /\ call.at - StampOf(uuid) > 5000
          /\ uuid \notin DOMAIN state.recent_servers
    /\ \E uuid \in DOMAIN state.recent_servers : call.at - StampOf(uuid) = 5000

(***************************************************************************)
(* How many servers one run of the soft filter removes.                    *)
(***************************************************************************)
Smaller(a, b) == IF a <= b THEN a ELSE b

\* C27: one run removes exactly min(floor(0.25 * N), R) servers, N being
\* the number of candidates and R the number of recent candidates; with
\* fewer than 4 candidates it removes none.
C27_RemovesExactly ==
    IsRun =>
        /\ Cardinality(Removed) =
              Smaller(Len(call.servers) \div 4, Cardinality(RecentCandidates))
        /\ Len(call.servers) < 4 => call.ret = call.servers

\* a run on 5 candidates, 4 of them recent, that removed one, and a run on
\* 3 candidates, all recent, that removed none
C27_Witness ==
    /\ IsRun
    /\ \/ /\ Len(call.servers) = 5
          /\ Cardinality(RecentCandidates) = 4
          /\ Cardinality(Removed) = 1
       \/ /\ Len(call.servers) = 3
          /\ Cardinality(RecentCandidates) = 3
          /\ Removed = {}

====
